---- MODULE Spec2Model ----
(***************************************************************************)
(* A model of nf-class: expanding a class of modules into a subworkflow.   *)
(*                                                                         *)
(* Modelled from src/nf_class/classes/expand.py (ClassExpand) and          *)
(* src/nf_class/subworkflows/create.py (SubworkflowExpandClass).           *)
(*                                                                         *)
(* Representation                                                          *)
(*  - a channel element {key: {type: .., ontologies: .., pattern: ..}} is  *)
(*    [key |-> k, info |-> [type, has_ontologies, ontologies, pattern]];   *)
(*    an absent "ontologies" key is has_ontologies = FALSE, an absent      *)
(*    "pattern" key is pattern = NoPattern;                                *)
(*  - a channel is [kind |-> "list" | "dict", elems |-> <<element, ..>>]:  *)
(*    a YAML list of elements (a tuple) or one bare element (a dict);      *)
(*  - an Optional[...] return value is [none |-> BOOLEAN, ...];            *)
(*  - a module name and the expand_modules option are sequences of one-    *)
(*    character strings, so split / replace / upper / lower work on        *)
(*    characters; generated text is a sequence of lines, each line the     *)
(*    exact text the f-string produces, without its trailing newline.      *)
(***************************************************************************)
EXTENDS Integers, Sequences, FiniteSets, TLC

(***************************************************************************)
(* Bounds of the model.                                                    *)
(***************************************************************************)
\* largest number of input channels of a class in SpecCompareInputs
MaxClassIn == 2
\* largest number of input channels of a module in SpecCompareInputs
MaxModIn == 2
\* largest number of output channels of a class in SpecCompareOutputs
MaxClassOut == 2
\* largest number of output channels of a module in SpecCompareOutputs
MaxModOut == 2
\* largest number of names in the expand_modules option
MaxReq == 3
\* largest number of modules listed by a class
MaxClassMods == 2

\* largest number of modules whose tests are generated on their own
MaxTestMods == 2

\* largest number of test datasets of a class
MaxDatasets == 2

MaxCreateChannels == 2

MaxCreateElems == 2

SeqsUpTo(S, n) == UNION {[1..k -> S] : k \in 0..n}


(***************************************************************************)
(* Channel elements.                                                       *)
(***************************************************************************)
Types == {"file", "map", "string"}

Terms == {"edam:format_1929", "edam:format_1984"}

NoPattern == "<no pattern>"

Patterns == {NoPattern, "*.fa", "*.aln"}

Info(t, h, o, p) == [type |-> t, has_ontologies |-> h, ontologies |-> o, pattern |-> p]

\* Every element description the comparison of SpecChannels is tried on
\* (an element without the "ontologies" key carries no terms).
ElementInfos ==
    {i \in {Info(t, h, o, p) :
                t \in Types, h \in BOOLEAN, o \in SUBSET Terms, p \in Patterns} :
        i.has_ontologies \/ i.ontologies = {}}

Elem(k, i) == [key |-> k, info |-> i]

ListChannel(es) == [kind |-> "list", elems |-> es]

DictChannel(e) == [kind |-> "dict", elems |-> <<e>>]

(***************************************************************************)
(* ClassExpand._compare_channels / SubworkflowExpandClass._compare_channels*)
(* (the two methods are the same text).                                    *)
(***************************************************************************)
_compare_channels(component_element, class_element) ==
    IF component_element.type # class_element.type
    THEN FALSE
    ELSE IF /\ component_element.type = "file"
            /\ component_element.has_ontologies
            /\ class_element.has_ontologies
            /\ ~(\A term \in class_element.ontologies :
                    term \in component_element.ontologies)
    THEN FALSE
    ELSE TRUE

(***************************************************************************)
(* Text helpers: Python's str operations on sequences of characters.       *)
(***************************************************************************)
RECURSIVE ToStr(_)
\* "".join(chars)
ToStr(s) == IF s = <<>> THEN "" ELSE Head(s) \o ToStr(Tail(s))

RECURSIVE Join(_, _)
\* sep.join(strs) for a sequence of strings
Join(sep, strs) ==
    IF strs = <<>> THEN ""
    ELSE IF Len(strs) = 1 THEN strs[1]
    ELSE strs[1] \o sep \o Join(sep, Tail(strs))

\* str.replace(old, new) for one-character old and new
Replace(s, old, new) == [i \in 1..Len(s) |-> IF s[i] = old THEN new ELSE s[i]]

UpperChar(c) ==
    CASE c = "a" -> "A" [] c = "b" -> "B" [] c = "c" -> "C"
      [] c = "d" -> "D" [] c = "x" -> "X" [] OTHER -> c

LowerChar(c) ==
    CASE c = "A" -> "a" [] c = "B" -> "b" [] c = "C" -> "c"
      [] c = "D" -> "d" [] c = "X" -> "x" [] OTHER -> c

\* str.upper()
Upper(s) == [i \in 1..Len(s) |-> UpperChar(s[i])]

\* str.lower()
Lower(s) == [i \in 1..Len(s) |-> LowerChar(s[i])]

RECURSIVE SplitFrom(_, _, _)
\* str.split(sep) continued: cur is the piece read so far
SplitFrom(s, sep, cur) ==
    IF s = <<>> THEN <<cur>>
    ELSE IF Head(s) = sep THEN <<cur>> \o SplitFrom(Tail(s), sep, <<>>)
    ELSE SplitFrom(Tail(s), sep, Append(cur, Head(s)))

\* str.split(sep): "".split(",") is [""]
Split(s, sep) == SplitFrom(s, sep, <<>>)

\* x in list
InList(x, list) == \E i \in 1..Len(list) : list[i] = x

Min(a, b) == IF a < b THEN a ELSE b

(***************************************************************************)
(* _compare_inputs.  inputs_yml is self.inputs_yml as it is when the       *)
(* method runs: every class channel is a list that ends with the 'tool'    *)
(* element.                                                                *)
(***************************************************************************)
\* faulty variant: the length check counts the 'tool' element
input_channel_matches_with_tool(component_channel, class_channel) ==
    /\ component_channel.kind = class_channel.kind
    /\ IF component_channel.kind = "list"
       THEN /\ Len(component_channel.elems) = Len(class_channel.elems)
            /\ \A i \in 1..Min(Len(component_channel.elems), Len(class_channel.elems)) :
                    _compare_channels(component_channel.elems[i].info,
                                      class_channel.elems[i].info)
       ELSE _compare_channels(component_channel.elems[1].info,
                              class_channel.elems[1].info)

\* The body of the loop over zip(self.inputs_yml, input_channel_names):
\* does component_channel equal class_channel (equal_info)?
InputChannelMatches(component_channel, class_channel) ==
    /\ component_channel.kind = class_channel.kind
    /\ IF component_channel.kind = "list"
       THEN /\ Len(component_channel.elems) = Len(class_channel.elems) - 1
            /\ \A i \in 1..Min(Len(component_channel.elems), Len(class_channel.elems)) :
                    _compare_channels(component_channel.elems[i].info,
                                      class_channel.elems[i].info)
       ELSE _compare_channels(component_channel.elems[1].info,
                              class_channel.elems[1].info)

\* The position in zip(self.inputs_yml, input_channel_names) at which the
\* inner loop breaks for component_channel, 0 when it runs to its end.
FoundChannel(inputs_yml, component_channel, input_channel_names) ==
    LET n == Min(Len(inputs_yml), Len(input_channel_names))
        hits == {i \in 1..n : InputChannelMatches(component_channel, inputs_yml[i])}
    IN  IF hits = {} THEN 0 ELSE CHOOSE i \in hits : \A j \in hits : i <= j

\* str([[]] * n)
EmptyLists(n) == "[" \o Join(", ", [i \in 1..n |-> "[]"]) \o "]"

\* faulty variant: "[]" whatever the number of elements
notfound_arg_flat(component_channel) == "[]"

\* ClassExpand: the argument of a component channel that no class channel equals
NotFoundArg(component_channel) ==
    IF Len(component_channel.elems) > 1
    THEN EmptyLists(Len(component_channel.elems))
    ELSE "[]"

\* SubworkflowExpandClass: the same place always appends "[]"
SwfNotFoundArg(component_channel) == "[]"

\* component_run_args after the loop over component_info
ComponentRunArgs(inputs_yml, component_info, input_channel_names, variant) ==
    [j \in 1..Len(component_info) |->
        LET found == FoundChannel(inputs_yml, component_info[j], input_channel_names)
        IN  IF found # 0 THEN input_channel_names[found]
            ELSE IF variant = "ClassExpand" THEN NotFoundArg(component_info[j])
            ELSE SwfNotFoundArg(component_info[j])]

NoneArgs == [none |-> TRUE, args |-> <<>>]

\* faulty variant: the list is returned when any, not every, class channel was used
compare_inputs_any(inputs_yml, component_info, input_channel_names, variant) ==
    LET component_run_args ==
            ComponentRunArgs(inputs_yml, component_info, input_channel_names, variant)
    IN  IF \/ input_channel_names = <<>>
           \/ \E i \in 1..Len(input_channel_names) :
                InList(input_channel_names[i], component_run_args)
        THEN [none |-> FALSE, args |-> component_run_args]
        ELSE NoneArgs

_compare_inputs(inputs_yml, component_info, input_channel_names, variant) ==
    LET component_run_args ==
            ComponentRunArgs(inputs_yml, component_info, input_channel_names, variant)
    IN  IF \A i \in 1..Len(input_channel_names) :
                InList(input_channel_names[i], component_run_args)
        THEN [none |-> FALSE, args |-> component_run_args]
        ELSE NoneArgs

(***************************************************************************)
(* _compare_outputs.  A dict (component_info, self.outputs_yml, the        *)
(* result) is the sequence of its items in insertion order; the value of   *)
(* an output channel is the list of its entries, of which the code reads   *)
(* entry [0].                                                              *)
(***************************************************************************)
DictKeys(d) == {d[i].key : i \in 1..Len(d)}

DictHas(d, k) == \E i \in 1..Len(d) : d[i].key = k

DictGet(d, k) == d[CHOOSE i \in 1..Len(d) : d[i].key = k].value

\* d[k] = v
DictSet(d, k, v) ==
    IF DictHas(d, k)
    THEN [i \in 1..Len(d) |-> IF d[i].key = k THEN [key |-> k, value |-> v] ELSE d[i]]
    ELSE Append(d, [key |-> k, value |-> v])

\* equal_info for the first entries of a component and a class output channel
OutputChannelMatches(component_entry, class_entry) ==
    /\ component_entry.kind = class_entry.kind
    /\ IF component_entry.kind = "list"
       THEN /\ Len(component_entry.elems) = Len(class_entry.elems)
            /\ \A i \in 1..Min(Len(component_entry.elems), Len(class_entry.elems)) :
                    _compare_channels(component_entry.elems[i].info,
                                      class_entry.elems[i].info)
       ELSE _compare_channels(component_entry.elems[1].info,
                              class_entry.elems[1].info)

\* The position in self.outputs_yml.items() at which the inner loop breaks
FoundOutput(outputs_yml, component_channel) ==
    LET hits == {i \in 1..Len(outputs_yml) :
                    OutputChannelMatches(component_channel[1], outputs_yml[i].value[1])}
    IN  IF hits = {} THEN 0 ELSE CHOOSE i \in hits : \A j \in hits : i <= j

RECURSIVE ComponentOutChannels(_, _, _)
\* component_out_channels after the loop over component_info.items(),
\* continued from the dict acc
ComponentOutChannels(outputs_yml, component_info, acc) ==
    IF component_info = <<>> THEN acc
    ELSE LET found == FoundOutput(outputs_yml, Head(component_info).value)
             next == IF found = 0 THEN acc
                     ELSE DictSet(acc, outputs_yml[found].key, Head(component_info).key)
         IN  ComponentOutChannels(outputs_yml, Tail(component_info), next)

NoneOuts == [none |-> TRUE, outs |-> <<>>]

\* faulty variant: the mapping is returned although a class channel is missing
compare_outputs_nocheck(outputs_yml, component_info) ==
    [none |-> FALSE, outs |-> ComponentOutChannels(outputs_yml, component_info, <<>>)]

_compare_outputs(outputs_yml, component_info) ==
    LET component_out_channels == ComponentOutChannels(outputs_yml, component_info, <<>>)
    IN  IF \A i \in 1..Len(outputs_yml) : DictHas(component_out_channels, outputs_yml[i].key)
        THEN [none |-> FALSE, outs |-> component_out_channels]
        ELSE NoneOuts

(***************************************************************************)
(* Pieces of _get_info_for_expanding.                                      *)
(***************************************************************************)
\* keys k with k == "meta" or k.startswith("meta"), among the keys used here
MetaKeys == {"meta", "meta2"}

\* "Naming input channels": the element key a class input channel is named by
InputChannelKey(channel) ==
    IF channel.elems[1].key \in MetaKeys
    THEN channel.elems[2].key
    ELSE channel.elems[1].key

InputChannelName(channel) == "ch_" \o InputChannelKey(channel)

\* i_channel.split("_")[1:] for the channel named by key: the keys used here
\* contain no "_", so this is [key]
ChannelElements(key) == <<key>>

\* input_channels
InputChannels(raw_inputs_yml) ==
    [i \in 1..Len(raw_inputs_yml) |-> InputChannelName(raw_inputs_yml[i])]

ToolElement == Elem("tool", Info("string", FALSE, {}, NoPattern))

\* "Yml input channels": channel.append({"tool": ...}) on every class channel
AppendTool(raw_inputs_yml) ==
    [i \in 1..Len(raw_inputs_yml) |->
        ListChannel(Append(raw_inputs_yml[i].elems, ToolElement))]

\* component.replace("/", "_").upper()
ModuleName(component) == Upper(Replace(component, "/", "_"))

\* access_inputs
AccessInputs(component, input_channels) ==
    [i \in 1..Len(input_channels) |->
        input_channels[i] \o "_branch." \o ToStr(Lower(ModuleName(component)))]

\* faulty variant: the process name is not upper-cased
include_statement_lower(component) ==
    "include { " \o ToStr(Replace(component, "/", "_"))
        \o " } from '../../../modules/nf-core/" \o ToStr(component) \o "/main'"

\* one line of self.include_statements (self.nfcore_org is "nf-core")
IncludeStatement(component) ==
    "include { " \o ToStr(ModuleName(component))
        \o " } from '../../../modules/nf-core/" \o ToStr(component) \o "/main'"

\* self.include_statements
IncludeStatements(components) ==
    [i \in 1..Len(components) |-> IncludeStatement(components[i])]

\* self.components_tags
ComponentsTags(components, which) ==
    [i \in 1..Len(components) |->
        IF which = "ClassExpand"
        THEN "    tag \"subworkflows/../../modules/nf-core/" \o ToStr(components[i]) \o "\""
        ELSE "    tag \"" \o ToStr(components[i]) \o "\""]

\* out_channel_names
OutChannelNames(outs_yml) == [i \in 1..Len(outs_yml) |-> outs_yml[i].key]

\* self.output_channels
OutputChannels(outs_yml) ==
    [i \in 1..Len(outs_yml) |->
        "    " \o outs_yml[i].key \o " = ch_out_" \o outs_yml[i].key]

\* "Declare output channels"
DeclareOutputs(outs_yml) ==
    [i \in 1..Len(outs_yml) |->
        "    def ch_out_" \o outs_yml[i].key \o " = Channel.empty()"] \o <<"">>

\* the two lines of one component in the .branch of a channel
BranchCase(component, key) ==
    LET module_name == ToStr(Lower(Replace(component, "/", "_")))
    IN  <<"                " \o module_name \o ": tool == \"" \o module_name \o "\"",
          "                    return [ meta, " \o Join(", ", ChannelElements(key)) \o " ]">>

RECURSIVE BranchCases(_, _)
BranchCases(components, key) ==
    IF components = <<>> THEN <<>>
    ELSE BranchCase(Head(components), key) \o BranchCases(Tail(components), key)

\* "Branch input channels": the lines of one input channel
BranchChannel(components, key) ==
    <<"    ch_" \o key,
      "        .branch {",
      "            meta, " \o Join(", ", ChannelElements(key)) \o ", tool ->">>
        \o BranchCases(components, key)
        \o <<"        }",
             "        .set { ch_" \o key \o "_branch }">>

RECURSIVE BranchChannels(_, _)
BranchChannels(components, keys) ==
    IF keys = <<>> THEN <<>>
    ELSE BranchChannel(components, Head(keys)) \o BranchChannels(components, Tail(keys))

\* "Run the included modules": the lines one component adds to run_module,
\* given what _compare_inputs and _compare_outputs returned for it
\* (None and an empty list or dict are falsy)
RunComponentLines(component, args, outs) ==
    LET module_name == ToStr(ModuleName(component))
        call == IF ~args.none /\ args.args # <<>>
                THEN <<"    " \o module_name \o "( " \o Join(", ", args.args) \o " )">>
                ELSE <<>>
        mix == IF ~outs.none /\ outs.outs # <<>>
               THEN [i \in 1..Len(outs.outs) |->
                        "    ch_out_" \o outs.outs[i].key \o " = ch_out_" \o outs.outs[i].key
                            \o ".mix(" \o module_name \o ".out." \o outs.outs[i].value \o ")"]
               ELSE <<>>
    IN  call \o mix \o <<"">>

(***************************************************************************)
(* _generate_nftest_code.                                                  *)
(***************************************************************************)
RECURSIVE LStrip(_, _)
LStrip(s, ch) == IF s # <<>> /\ Head(s) = ch THEN LStrip(Tail(s), ch) ELSE s

RECURSIVE RStrip(_, _)
RStrip(s, ch) ==
    IF s # <<>> /\ s[Len(s)] = ch THEN RStrip(SubSeq(s, 1, Len(s) - 1), ch) ELSE s

\* str.strip(ch) for a one-character ch
Strip(s, ch) == RStrip(LStrip(s, ch), ch)

\* str(i) for the indices used here
IntStr(i) == CASE i = 0 -> "0" [] i = 1 -> "1" [] i = 2 -> "2" [] i = 3 -> "3"

\* an element of a test dataset: a YAML string, or a value of another type
\* (chars is then its str())
Str(chars) == [is_str |-> TRUE, chars |-> chars]

NonStr(chars) == [is_str |-> FALSE, chars |-> chars]

\* td.strip('"').strip("'") raises AttributeError for an element that is
\* not a string
AllStrings(ch_test_data) == \A k \in 1..Len(ch_test_data) : ch_test_data[k].is_str

\* faulty variant: the name of the module is not appended
list_channel_without_tool(component, ch_test_data) ==
    [k \in 1..Len(ch_test_data) |->
        ToStr(Strip(Strip(ch_test_data[k].chars, "\""), "'"))]

\* list_channel of one test dataset
ListChannelOf(component, ch_test_data) ==
    [k \in 1..Len(ch_test_data) |->
        ToStr(Strip(Strip(ch_test_data[k].chars, "\""), "'"))]
        \o <<"'" \o ToStr(Replace(component, "/", "_")) \o "'">>

RECURSIVE InputLines(_, _, _)
\* the lines the loop over enumerate(self.test_datasets) adds from position
\* i on: the line of a dataset is left out when AttributeError is caught
InputLines(component, datasets, i) ==
    IF i > Len(datasets) THEN <<>>
    ELSE (IF AllStrings(datasets[i])
          THEN <<"                input[" \o IntStr(i - 1) \o "] = Channel.of( ["
                    \o Join(", ", ListChannelOf(component, datasets[i])) \o "] )">>
          ELSE <<>>)
            \o InputLines(component, datasets, i + 1)

\* test_code of one component
TestCode(component, datasets) ==
    <<"    test(\"" \o ToStr(component) \o "\") {",
      "",
      "        when {",
      "            workflow {",
      "                \"\"\"">>
    \o InputLines(component, datasets, 1)
    \o <<"                \"\"\"",
          "            }",
          "        }",
          "",
          "        then {",
          "            assertAll(",
          "                { assert workflow.success },",
          "                { assert snapshot(workflow.out).match(\"" \o ToStr(component) \o "\") },",
          "            )",
          "        }",
          "    }",
          "">>

RECURSIVE GenerateNftestCode(_, _)
\* self.tests
GenerateNftestCode(components, datasets) ==
    IF components = <<>> THEN <<>>
    ELSE TestCode(Head(components), datasets)
            \o GenerateNftestCode(Tail(components), datasets)

(***************************************************************************)
(* _get_modules_from_class.                                                *)
(***************************************************************************)
\* list.remove(x): the list without the first occurrence of x
ListRemove(list, x) ==
    LET k == CHOOSE i \in 1..Len(list) : list[i] = x /\ \A j \in 1..(i - 1) : list[j] # x
    IN  SubSeq(list, 1, k - 1) \o SubSeq(list, k + 1, Len(list))

RECURSIVE RemoveUnknown(_, _, _)
\* "for module in self.components: if module not in self.class_modules:
\* self.components.remove(module)", continued at position i: the iterator
\* moves on by one whether or not the list was shortened under it
RemoveUnknown(list, i, class_mods) ==
    IF i > Len(list) THEN list
    ELSE IF ~InList(list[i], class_mods)
    THEN RemoveUnknown(ListRemove(list, list[i]), i + 1, class_mods)
    ELSE RemoveUnknown(list, i + 1, class_mods)

\* faulty variant: the test for an empty expand_modules is inverted
get_modules_inverted(expand_mods, class_mods) ==
    IF expand_mods = <<>>
    THEN RemoveUnknown(Split(expand_mods, ","), 1, class_mods)
    ELSE class_mods

\* self.components after _get_modules_from_class
_get_modules_from_class(expand_mods, class_mods) ==
    IF expand_mods # <<>>
    THEN RemoveUnknown(Split(expand_mods, ","), 1, class_mods)
    ELSE class_mods

(***************************************************************************)
(* Inputs of the comparisons.                                              *)
(***************************************************************************)
T1 == "edam:format_1929"

T2 == "edam:format_1984"

Meta == Elem("meta", Info("map", FALSE, {}, NoPattern))

\* class elements: a fasta file of format T1, a tree file of formats T1 and T2
ClassFasta == Elem("fasta", Info("file", TRUE, {T1}, "*.fa"))

ClassTree == Elem("tree", Info("file", TRUE, {T1, T2}, NoPattern))

\* module elements
ModFasta == Elem("fasta", Info("file", TRUE, {T1}, "*.{fa,fasta}"))

ModAny == Elem("input", Info("file", FALSE, {}, NoPattern))

ModBoth == Elem("aln", Info("file", TRUE, {T1, T2}, "*.aln"))

ModMode == Elem("mode", Info("string", FALSE, {}, NoPattern))

\* class input channels as the class YAML declares them (lists, no 'tool')
ClassInChannels ==
    {ListChannel(<<Meta, f>>) : f \in {ClassFasta, ClassTree}}
        \cup {ListChannel(<<f>>) : f \in {ClassFasta, ClassTree}}

\* module input channels as a module's meta.yml declares them
ModInChannels ==
    {ListChannel(<<Meta, f>>) : f \in {ModFasta, ModAny}}
        \cup {ListChannel(<<f>>) : f \in {ModFasta, ModAny}}
        \cup {ListChannel(<<Meta, ModFasta, ModMode>>), DictChannel(ModFasta)}

\* first entries of output channels
ClassOutEntries ==
    {ListChannel(<<Meta, ClassFasta>>), ListChannel(<<Meta, ClassTree>>),
     ListChannel(<<ClassFasta>>), DictChannel(ClassFasta)}

ModOutEntries ==
    {ListChannel(<<Meta, ModFasta>>), ListChannel(<<Meta, ModBoth>>),
     ListChannel(<<ModAny>>), DictChannel(ModFasta), DictChannel(ModMode)}

ClassOutNames == <<"alignment", "tree", "log", "report">>

ModOutNames == <<"aln", "phy", "txt", "html">>

\* the dicts {names[1]: [entries[1]], names[2]: [entries[2]], ...}
OutputDict(names, entries) ==
    [i \in 1..Len(entries) |-> [key |-> names[i], value |-> <<entries[i]>>]]

\* the module the harness compares
HarnessComponent == <<"a", "/", "x">>

(***************************************************************************)
(* State.                                                                  *)
(***************************************************************************)
VARIABLES
    \* arguments and result of one call of _compare_channels
    component_element, class_element, channels_equal,
    \* position of the comparison harness
    cmp_pc,
    \* which class runs: "ClassExpand" or "SubworkflowExpandClass"
    variant,
    \* self.inputs_yml, self.outputs_yml, input_channels
    inputs_yml, outputs_yml, input_channels,
    \* one module's meta.yml, and what the comparisons returned for it
    component_meta, component_args, component_outs,
    \* self.run_module, the lines generated so far
    run_module,
    \* position of expand_class, and the exception it raised ("" for none)
    pc, error,
    \* the object after construction
    repo_type, classname, force, expand_modules,
    \* the class YAML of the modules repository
    remote_class,
    \* self.class_modules, self.components, self.test_datasets
    class_modules, components, test_datasets,
    \* self.components_tags, self.include_statements, self.tests
    components_tags, include_statements, tests,
    \* self.components_args_inputs, self.components_names_outputs
    components_args_inputs, components_names_outputs,
    \* the subworkflow directory: its generated files and <classname>.diff,
    \* the files the patch changes, the temporary copy made by _apply_patch,
    \* and how the patch was applied ("no", "differ", "git", "failed")
    files, patch_file, patch_targets, temp_dir, patch_applied,
    \* the command that runs besides expand_class ("none", "ClassPatch",
    \* "ClassComponentPatch", "ClassLint", "ComponentCreateFromClass"), its
    \* position and the exception it raised ("" for none)
    command, cmd_pc, cmd_error,
    \* self.org, self.has_valid_directory(), self.no_prompts of a command
    org, valid_directory, no_prompts,
    \* self.directory as it was given to the command (".", an absolute path
    \* or another relative path), and the working directory of the process
    \* ("directory": self.directory; "clone": another directory that holds
    \* subworkflows/<org>/<name>/meta.yml; "elsewhere": one that does not)
    directory, cwd,
    \* the user's answer to "Do you want to regenerate it?"
    \* ("unasked", "yes", "no")
    asked,
    \* the subworkflow directories of the modules repository in self.directory
    repo,
    \* the file at patch_temp_path
    patch_temp,
    \* arguments and lists of ClassLint.lint
    class_name, all_classes, to_lint, passed, warned, failed,
    \* self.inputs, self.input_vars, self.outputs, self.output_vars of
    \* ComponentCreateFromClass
    inputs, input_vars, outputs, output_vars

harnessVars == <<component_element, class_element, channels_equal, cmp_pc,
                 component_meta, component_args, component_outs>>

classVars == <<variant, inputs_yml, outputs_yml, input_channels>>

classVarsNoVariant == <<inputs_yml, outputs_yml, input_channels>>

genVars == <<run_module>>

optionVars == <<repo_type, classname, force, expand_modules, remote_class, patch_targets>>

selfVars == <<class_modules, components, test_datasets, components_tags,
              include_statements, tests, components_args_inputs,
              components_names_outputs>>

dirVars == <<files, patch_file, temp_dir, patch_applied>>

lintVars == <<class_name, all_classes, to_lint, passed, warned, failed>>

createVars == <<inputs, input_vars, outputs, output_vars>>

toolVars == <<command, cmd_pc, cmd_error, org, valid_directory, no_prompts, directory, cwd,
              asked, repo,
              patch_temp, lintVars, createVars>>

flowVars == <<pc, error, optionVars, selfVars, dirVars, toolVars>>

vars == <<harnessVars, classVars, genVars, flowVars>>

NoElement == Info("map", FALSE, {}, NoPattern)

NoMeta == [input |-> <<>>, output |-> <<>>]

\* the part of the state a specification does not use
ChannelsIdle ==
    /\ component_element = NoElement
    /\ class_element = NoElement
    /\ channels_equal = [done |-> FALSE, value |-> FALSE]

ClassIdle ==
    /\ inputs_yml = <<>>
    /\ outputs_yml = <<>>
    /\ input_channels = <<>>

CompareIdle ==
    /\ component_meta = NoMeta
    /\ component_args = NoneArgs
    /\ component_outs = NoneOuts

Files == {"main.nf", "meta.yml", "tests/main.nf.test"}

NoAttrs ==
    [components_tags |-> <<>>, include_statements |-> <<>>, input_channels |-> <<>>,
     run_module |-> <<>>, tests |-> <<>>]

\* a file that does not exist
NoFile == [exists |-> FALSE, gen |-> "none", patched |-> FALSE, rendered |-> NoAttrs]

\* a file left by an earlier run
StaleFile == [exists |-> TRUE, gen |-> "stale", patched |-> FALSE, rendered |-> NoAttrs]

NoDir == [files |-> [f \in Files |-> NoFile], patch_file |-> "absent"]

\* the subworkflows that have a directory in the modules repository: two
\* expanded from classes, one written by hand
RepoSubworkflows == {"msa_alignment", "tree_inference", "plain_swf"}

\* what a patch file records: the files that differ, from one directory to
\* another
NoDiff == [changed |-> {}, from |-> <<>>, to |-> <<>>]

NoPatchTemp == [written |-> FALSE, diff |-> NoDiff]

\* the working directories of a command
Cwds == {"directory", "clone", "elsewhere"}

\* the forms of self.directory: the working directory itself, an absolute
\* path, a relative path to another directory
Directories == {".", "/repo", "repo"}

\* class_name of lint when no name is given
None == "None"

\* no command besides expand_class runs
ToolsIdle ==
    /\ command = "none"
    /\ cmd_pc = "idle"
    /\ cmd_error = ""
    /\ org = "my-org"
    /\ valid_directory = TRUE
    /\ directory = "."
    /\ cwd = "directory"
    /\ no_prompts = FALSE
    /\ asked = "unasked"
    /\ repo = <<>>
    /\ patch_temp = NoPatchTemp
    /\ class_name = ""
    /\ all_classes = FALSE
    /\ to_lint = <<>>
    /\ passed = <<>>
    /\ warned = <<>>
    /\ failed = <<>>
    /\ inputs = <<>>
    /\ input_vars = <<>>
    /\ outputs = <<>>
    /\ output_vars = <<>>

SelfFresh ==
    /\ class_modules = <<>>
    /\ components = <<>>
    /\ test_datasets = <<>>
    /\ components_tags = <<>>
    /\ include_statements = <<>>
    /\ tests = <<>>
    /\ components_args_inputs = <<>>
    /\ components_names_outputs = <<>>

GenIdle ==
    /\ run_module = <<>>
    /\ pc = "idle"
    /\ error = ""
    /\ repo_type = "modules"
    /\ classname = ""
    /\ force = FALSE
    /\ expand_modules = <<>>
    /\ remote_class = [has_modules |-> FALSE, modules |-> <<>>]
    /\ patch_targets = {}
    /\ SelfFresh
    /\ files = NoDir.files
    /\ patch_file = "absent"
    /\ temp_dir = NoDir
    /\ patch_applied = "no"
    /\ ToolsIdle

(***************************************************************************)
(* SpecChannels: _compare_channels on every pair of element descriptions.  *)
(***************************************************************************)
InitChannels ==
    /\ component_element \in ElementInfos
    /\ class_element \in ElementInfos
    /\ channels_equal = [done |-> FALSE, value |-> FALSE]
    /\ cmp_pc = "elements"
    /\ variant \in {"ClassExpand", "SubworkflowExpandClass"}
    /\ ClassIdle
    /\ CompareIdle
    /\ GenIdle

CompareChannels ==
    /\ cmp_pc = "elements"
    /\ channels_equal' =
            [done |-> TRUE, value |-> _compare_channels(component_element, class_element)]
    /\ cmp_pc' = "compared"
    /\ UNCHANGED <<component_element, class_element, component_meta,
                   component_args, component_outs, classVars, genVars, flowVars>>

NextChannels == CompareChannels

SpecChannels == InitChannels /\ [][NextChannels]_vars

(***************************************************************************)
(* SpecCompareInputs: the class input channels are named, get their 'tool' *)
(* element and are compared with the input channels of one module.         *)
(***************************************************************************)
InitCompareInputs ==
    /\ ChannelsIdle
    /\ cmp_pc = "inputs"
    /\ variant \in {"ClassExpand", "SubworkflowExpandClass"}
    /\ inputs_yml \in SeqsUpTo(ClassInChannels, MaxClassIn)
    /\ outputs_yml = <<>>
    /\ input_channels = <<>>
    /\ \E info \in SeqsUpTo(ModInChannels, MaxModIn) :
            component_meta = [input |-> info, output |-> <<>>]
    /\ component_args = NoneArgs
    /\ component_outs = NoneOuts
    /\ GenIdle

NameInputs ==
    /\ cmp_pc = "inputs"
    /\ input_channels' = InputChannels(inputs_yml)
    /\ inputs_yml' = AppendTool(inputs_yml)
    /\ cmp_pc' = "named"
    /\ UNCHANGED <<component_element, class_element, channels_equal, component_meta,
                   component_args, component_outs, variant, outputs_yml, genVars, flowVars>>

CompareInputs ==
    /\ cmp_pc = "named"
    /\ component_args' =
            _compare_inputs(inputs_yml, component_meta.input,
                            AccessInputs(HarnessComponent, input_channels), variant)
    /\ cmp_pc' = "compared_inputs"
    /\ UNCHANGED <<component_element, class_element, channels_equal, component_meta,
                   component_outs, classVars, genVars, flowVars>>

\* the harness runs the component as _get_info_for_expanding does
CallComponent ==
    /\ cmp_pc = "compared_inputs"
    /\ run_module' = run_module \o RunComponentLines(HarnessComponent, component_args,
                                                     component_outs)
    /\ cmp_pc' = "called"
    /\ UNCHANGED <<component_element, class_element, channels_equal, component_meta,
                   component_args, component_outs, classVars, flowVars>>

NextCompareInputs == NameInputs \/ CompareInputs \/ CallComponent

SpecCompareInputs == InitCompareInputs /\ [][NextCompareInputs]_vars

(***************************************************************************)
(* SpecCompareOutputs: the class output channels are compared with the     *)
(* output channels of one module.                                          *)
(***************************************************************************)
InitCompareOutputs ==
    /\ ChannelsIdle
    /\ cmp_pc = "outputs"
    /\ variant \in {"ClassExpand", "SubworkflowExpandClass"}
    /\ inputs_yml = <<>>
    /\ input_channels = <<>>
    /\ \E entries \in SeqsUpTo(ClassOutEntries, MaxClassOut) :
            outputs_yml = OutputDict(ClassOutNames, entries)
    /\ \E entries \in SeqsUpTo(ModOutEntries, MaxModOut) :
            component_meta = [input |-> <<>>, output |-> OutputDict(ModOutNames, entries)]
    /\ component_args = NoneArgs
    /\ component_outs = NoneOuts
    /\ GenIdle

CompareOutputs ==
    /\ cmp_pc = "outputs"
    /\ component_outs' = _compare_outputs(outputs_yml, component_meta.output)
    /\ cmp_pc' = "compared_outputs"
    /\ UNCHANGED <<component_element, class_element, channels_equal, component_meta,
                   component_args, classVars, genVars, flowVars>>

NextCompareOutputs == CompareOutputs

SpecCompareOutputs == InitCompareOutputs /\ [][NextCompareOutputs]_vars

(***************************************************************************)
(* Spec: expand_class of ClassExpand, from the constructed object to its   *)
(* return or raise. SubworkflowExpandClass has no constructed object: its  *)
(* constructor raises, and none of its methods runs.                       *)
(*                                                                         *)
(* The world around it: the classes of the modules repository, the class   *)
(* YAML, the meta.yml of the upstream modules, the subworkflow directory.  *)
(***************************************************************************)
AvailableClasses == {"msa_alignment", "tree_inference"}

ModA == <<"a", "/", "x">>

ModB == <<"b">>

ModC == <<"c">>

ModD == <<"d">>

\* modules a class may list
ClassModulePool == {ModA, ModB, ModC}

\* names a user may put in expand_modules: ModD is an upstream module that
\* no class lists
RequestPool == {ModA, ModB, ModD}

RECURSIVE JoinNames(_)
\* the option text for a list of names: the names separated by commas
JoinNames(names) ==
    IF names = <<>> THEN <<>>
    ELSE IF Len(names) = 1 THEN names[1]
    ELSE names[1] \o <<",">> \o JoinNames(Tail(names))

ModGuide == Elem("tree", Info("file", TRUE, {T2}, "*.dnd"))

Meta2 == Elem("meta2", Info("map", FALSE, {}, NoPattern))

ClassAln == Elem("*.aln", Info("file", TRUE, {T2}, "*.aln"))

ModVersions == Elem("versions.yml", Info("file", FALSE, {}, "versions.yml"))

\* the class YAML: one input channel [meta, fasta], one output channel
FlowClassInput == <<ListChannel(<<Meta, ClassFasta>>)>>

FlowClassOutput == OutputDict(<<"alignment">>, <<ListChannel(<<Meta, ClassAln>>)>>)

FlowTestData == << <<Str(<<"\"", "m", "\"">>), Str(<<"'", "f", "'">>)>> >>

AlignmentOutput ==
    <<[key |-> "alignment", value |-> <<ListChannel(<<Meta, ModBoth>>)>>],
      [key |-> "versions", value |-> <<DictChannel(ModVersions)>>]>>

\* the meta.yml of the upstream modules:
\*   a/x takes the class channel, a guide tree and a flag; its output matches
\*   b    takes a bare fasta file (no meta): its input does not match
\*   c    takes the class channel; its outputs do not match
\*   d    takes the class channel; its output matches
UpstreamMeta(component) ==
    CASE component = ModA ->
            [input |-> <<ListChannel(<<Meta, ModFasta>>), ListChannel(<<Meta2, ModGuide>>),
                         DictChannel(ModMode)>>,
             output |-> AlignmentOutput]
      [] component = ModB ->
            [input |-> <<ListChannel(<<ModFasta>>)>>, output |-> AlignmentOutput]
      [] component = ModC ->
            [input |-> <<ListChannel(<<Meta, ModFasta>>)>>,
             output |-> <<[key |-> "versions", value |-> <<DictChannel(ModVersions)>>]>>]
      [] component = ModD ->
            [input |-> <<ListChannel(<<Meta, ModAny>>)>>, output |-> AlignmentOutput]

UpstreamModules == {ModA, ModB, ModC, ModD}

\* the subworkflow directory before the run: absent, left by an earlier
\* run, or left by an earlier run together with a patch
InitialDirs ==
    {[files |-> [f \in Files |-> NoFile], patch_file |-> "absent", targets |-> {}],
     [files |-> [f \in Files |-> StaleFile], patch_file |-> "absent", targets |-> {}],
     [files |-> [f \in Files |-> StaleFile], patch_file |-> "original",
      targets |-> {"tests/main.nf.test"}],
     [files |-> [f \in Files |-> StaleFile], patch_file |-> "original",
      targets |-> {"main.nf", "tests/main.nf.test"}]}

\* the exception of the constructor, or "": ClassExpand.__init__ returns;
\* SubworkflowExpandClass.__init__ passes ten positional arguments to
\* ComponentCreateFromClass.__init__, which takes nine
ConstructorError(which) ==
    IF which = "SubworkflowExpandClass"
    THEN "TypeError: __init__() takes from 3 to 10 positional arguments but 11 were given"
    ELSE ""

\* the state after the constructor: the object of ClassExpand, on which
\* expand_class starts, or the exception of SubworkflowExpandClass
Init ==
    /\ ChannelsIdle
    /\ cmp_pc = "idle"
    /\ CompareIdle
    /\ ClassIdle
    /\ run_module = <<>>
    /\ variant \in {"ClassExpand", "SubworkflowExpandClass"}
    /\ pc = (IF ConstructorError(variant) = "" THEN "start" ELSE "raised")
    /\ error = ConstructorError(variant)
    /\ repo_type \in {"modules", "pipelines"}
    /\ classname \in {"msa_alignment", "no_such_class"}
    /\ force \in BOOLEAN
    /\ \E names \in SeqsUpTo(RequestPool, MaxReq) : expand_modules = JoinNames(names)
    /\ remote_class \in
            {[has_modules |-> FALSE, modules |-> <<>>]}
                \cup {[has_modules |-> TRUE, modules |-> m] :
                        m \in SeqsUpTo(ClassModulePool, MaxClassMods)}
    /\ SelfFresh
    /\ \E d \in InitialDirs :
            /\ files = d.files
            /\ patch_file = d.patch_file
            /\ patch_targets = d.targets
    /\ temp_dir = NoDir
    /\ patch_applied = "no"
    /\ ToolsIdle

\* faulty variant: the exception is swallowed and the run goes on to render
raise_swallowed(e) == pc' = "render" /\ error' = e

Raise(e) == pc' = "raised" /\ error' = e

idleVars == <<harnessVars, variant, toolVars>>

\* expand_class, lines 75-76
CheckRepoType ==
    /\ variant = "ClassExpand"
    /\ pc = "start"
    /\ IF repo_type = "pipelines"
       THEN Raise("UserWarning: not supported for pipelines")
       ELSE pc' = "class_prompt" /\ error' = error
    /\ UNCHANGED <<idleVars, inputs_yml, outputs_yml, input_channels, genVars,
                   optionVars, selfVars, dirVars>>

\* _collect_class_prompt (the class name is given, nothing is asked)
CollectClassPrompt ==
    /\ variant = "ClassExpand"
    /\ pc = "class_prompt"
    /\ IF classname \notin AvailableClasses
       THEN Raise("UserWarning: class not found")
       ELSE pc' = "component_dirs" /\ error' = error
    /\ UNCHANGED <<idleVars, inputs_yml, outputs_yml, input_channels, genVars,
                   optionVars, selfVars, dirVars>>

DirExists == patch_file # "absent" \/ \E f \in Files : files[f].exists

\* self._get_component_dirs() of nf-core: an existing component directory
\* is refused without --force
GetComponentDirs ==
    /\ variant = "ClassExpand"
    /\ pc = "component_dirs"
    /\ IF DirExists /\ ~force
       THEN Raise("UserWarning: component exists, use --force")
       ELSE pc' = "class_info" /\ error' = error
    /\ UNCHANGED <<idleVars, inputs_yml, outputs_yml, input_channels, genVars,
                   optionVars, selfVars, dirVars>>

\* _get_class_info: the class YAML is fetched, or the request fails
GetClassInfo ==
    /\ variant = "ClassExpand"
    /\ pc = "class_info"
    /\ \E fetched \in BOOLEAN :
        IF ~fetched
        THEN /\ Raise("HTTPError: class yml")
             /\ UNCHANGED <<inputs_yml, outputs_yml, class_modules, test_datasets>>
        ELSE /\ inputs_yml' = FlowClassInput
             /\ outputs_yml' = FlowClassOutput
             /\ class_modules' =
                    IF remote_class.has_modules THEN remote_class.modules ELSE <<>>
             /\ test_datasets' = FlowTestData
             /\ pc' = "modules"
             /\ error' = error
    /\ UNCHANGED <<idleVars, input_channels, genVars, optionVars, components,
                   components_tags, include_statements, tests, components_args_inputs,
                   components_names_outputs, dirVars>>

\* _get_modules_from_class
GetModulesFromClass ==
    /\ variant = "ClassExpand"
    /\ pc = "modules"
    /\ components' = _get_modules_from_class(expand_modules, class_modules)
    /\ pc' = "info"
    /\ UNCHANGED <<idleVars, classVarsNoVariant, genVars, error, optionVars, class_modules,
                   test_datasets, components_tags, include_statements, tests,
                   components_args_inputs, components_names_outputs, dirVars>>

\* what _compare_inputs returns for a component of the subworkflow
ArgsOf(component, tooled_inputs_yml, in_channels) ==
    _compare_inputs(tooled_inputs_yml, UpstreamMeta(component).input,
                    AccessInputs(component, in_channels), variant)

\* what _compare_outputs returns for a component of the subworkflow
OutsOf(component) == _compare_outputs(outputs_yml, UpstreamMeta(component).output)

RECURSIVE RunComponents(_, _, _)
\* "Run the included modules": the lines of the components, in order
RunComponents(comps, tooled_inputs_yml, in_channels) ==
    IF comps = <<>> THEN <<>>
    ELSE RunComponentLines(Head(comps),
                           ArgsOf(Head(comps), tooled_inputs_yml, in_channels),
                           OutsOf(Head(comps)))
            \o RunComponents(Tail(comps), tooled_inputs_yml, in_channels)

RECURSIVE ArgsDict(_, _, _, _)
\* self.components_args_inputs after the components comps, from the dict acc
ArgsDict(comps, tooled_inputs_yml, in_channels, acc) ==
    IF comps = <<>> THEN acc
    ELSE ArgsDict(Tail(comps), tooled_inputs_yml, in_channels,
                  DictSet(acc, Head(comps),
                          ArgsOf(Head(comps), tooled_inputs_yml, in_channels)))

RECURSIVE OutsDict(_, _)
\* self.components_names_outputs after the components comps, from the dict acc
OutsDict(comps, acc) ==
    IF comps = <<>> THEN acc
    ELSE OutsDict(Tail(comps), DictSet(acc, Head(comps), OutsOf(Head(comps))))

\* the lines of run_module written before the first module is fetched
RunModuleHead(in_keys) ==
    DeclareOutputs(outputs_yml) \o BranchChannels(components, in_keys) \o <<"">>

\* _get_info_for_expanding: every meta.yml is fetched and compared, or the
\* fetch of the n-th component fails (the request fails, or the module is
\* not an upstream module) after the components before it were handled
GetInfoForExpanding ==
    /\ variant = "ClassExpand"
    /\ pc = "info"
    /\ LET in_keys == [i \in 1..Len(inputs_yml) |-> InputChannelKey(inputs_yml[i])]
           in_channels == InputChannels(inputs_yml)
           tooled == AppendTool(inputs_yml)
       IN  /\ components_tags' = ComponentsTags(components, variant)
           /\ include_statements' = IncludeStatements(components)
           /\ input_channels' = in_channels
           /\ inputs_yml' = tooled
           /\ \E n \in 0..Len(components) :
                IF n = 0
                THEN /\ \A i \in 1..Len(components) : components[i] \in UpstreamModules
                     /\ run_module' = RunModuleHead(in_keys)
                                        \o RunComponents(components, tooled, in_channels)
                     /\ components_args_inputs' =
                            ArgsDict(components, tooled, in_channels, <<>>)
                     /\ components_names_outputs' = OutsDict(components, <<>>)
                     /\ tests' = GenerateNftestCode(components, test_datasets)
                     /\ pc' = "render"
                     /\ error' = error
                ELSE /\ \A i \in 1..(n - 1) : components[i] \in UpstreamModules
                     /\ run_module' = RunModuleHead(in_keys)
                                        \o RunComponents(SubSeq(components, 1, n - 1),
                                                         tooled, in_channels)
                     /\ components_args_inputs' =
                            ArgsDict(SubSeq(components, 1, n - 1), tooled, in_channels, <<>>)
                     /\ components_names_outputs' =
                            OutsDict(SubSeq(components, 1, n - 1), <<>>)
                     /\ tests' = tests
                     /\ Raise("HTTPError: module meta.yml")
    /\ UNCHANGED <<idleVars, outputs_yml, optionVars, class_modules, components,
                   test_datasets, dirVars>>

\* vars(self), as far as the templates can show it
ObjectAttrs ==
    [components_tags |-> components_tags, include_statements |-> include_statements,
     input_channels |-> input_channels, run_module |-> run_module, tests |-> tests]

\* the file _render_template writes for a template
RenderedFile(object_attrs) ==
    [exists |-> TRUE, gen |-> "rendered", patched |-> FALSE, rendered |-> object_attrs]

\* _render_template: every file of self.file_paths is rendered and written
RenderTemplate ==
    /\ variant = "ClassExpand"
    /\ pc = "render"
    /\ files' = [f \in Files |-> RenderedFile(ObjectAttrs)]
    /\ pc' = "patch"
    /\ UNCHANGED <<idleVars, classVarsNoVariant, genVars, error, optionVars, selfVars,
                   patch_file, temp_dir, patch_applied>>

\* expand_class, lines 106-108
CheckPatch ==
    /\ variant = "ClassExpand"
    /\ pc = "patch"
    /\ pc' = IF patch_file # "absent" THEN "apply_patch" ELSE "finish"
    /\ UNCHANGED <<idleVars, classVarsNoVariant, genVars, error, optionVars, selfVars,
                   dirVars>>

\* faulty variant: the copy of the directory leaves the patch file out
copy_tree_without_patch(dir_files, dir_patch) ==
    [files |-> dir_files, patch_file |-> "absent"]

\* shutil.copytree(subworkflow_dir, temp_component_dir)
CopyTree(dir_files, dir_patch) == [files |-> dir_files, patch_file |-> dir_patch]

\* a file with the patch applied to it
Patched(file) == [file EXCEPT !.patched = TRUE]

\* faulty variant: a failed try_apply_patch has already written to the files
apply_patch_try_in_place ==
    /\ variant = "ClassExpand"
    /\ pc = "apply_patch"
    /\ temp_dir' = CopyTree(files, patch_file)
    /\ \E applies \in BOOLEAN :
            /\ pc' = IF applies THEN "apply_patch_write" ELSE "git_apply"
            /\ files' = IF applies THEN files
                        ELSE [f \in Files |-> IF f \in patch_targets
                                              THEN Patched(files[f]) ELSE files[f]]
    /\ UNCHANGED <<idleVars, classVarsNoVariant, genVars, error, optionVars, selfVars,
                   patch_file, patch_applied>>

\* _apply_patch, lines 204-225: the directory is copied; ComponentsDiffer
\* .try_apply_patch gives the patched files or raises LookupError, on which
\* _apply_patch returns False
ApplyPatchTry ==
    /\ variant = "ClassExpand"
    /\ pc = "apply_patch"
    /\ temp_dir' = CopyTree(files, patch_file)
    /\ \E applies \in BOOLEAN :
            pc' = IF applies THEN "apply_patch_write" ELSE "git_apply"
    /\ UNCHANGED <<idleVars, classVarsNoVariant, genVars, error, optionVars, selfVars,
                   files, patch_file, patch_applied>>

\* _apply_patch, lines 227-246: the patched files are written to the copy
\* and the patch file is written anew
ApplyPatchWrite ==
    /\ variant = "ClassExpand"
    /\ pc = "apply_patch_write"
    /\ temp_dir' = [temp_dir EXCEPT !.files =
                        [f \in Files |-> IF f \in patch_targets
                                         THEN Patched(temp_dir.files[f])
                                         ELSE temp_dir.files[f]]]
    /\ patch_file' = "regenerated"
    /\ pc' = "apply_patch_move"
    /\ UNCHANGED <<idleVars, classVarsNoVariant, genVars, error, optionVars, selfVars,
                   files, patch_applied>>

\* _apply_patch, lines 248-253: the directory is removed and replaced by
\* the copy; _apply_patch returns True
ApplyPatchMove ==
    /\ variant = "ClassExpand"
    /\ pc = "apply_patch_move"
    /\ files' = temp_dir.files
    /\ patch_file' = temp_dir.patch_file
    /\ patch_applied' = "differ"
    /\ pc' = "finish"
    /\ UNCHANGED <<idleVars, classVarsNoVariant, genVars, error, optionVars, selfVars,
                   temp_dir>>

\* expand_class, lines 110-117: git apply patches the files in place, or
\* fails with GitCommandError, which is logged
GitApply ==
    /\ variant = "ClassExpand"
    /\ pc = "git_apply"
    /\ \E applies \in BOOLEAN :
        IF applies
        THEN /\ files' = [f \in Files |-> IF f \in patch_targets
                                          THEN Patched(files[f]) ELSE files[f]]
             /\ patch_applied' = "git"
        ELSE /\ files' = files
             /\ patch_applied' = "failed"
    /\ pc' = "finish"
    /\ UNCHANGED <<idleVars, classVarsNoVariant, genVars, error, optionVars, selfVars,
                   patch_file, temp_dir>>

\* expand_class, lines 119-121: prettier, and the method returns
Finish ==
    /\ variant = "ClassExpand"
    /\ pc = "finish"
    /\ pc' = "done"
    /\ UNCHANGED <<idleVars, classVarsNoVariant, genVars, error, optionVars, selfVars,
                   dirVars>>

Next ==
    \/ CheckRepoType
    \/ CollectClassPrompt
    \/ GetComponentDirs
    \/ GetClassInfo
    \/ GetModulesFromClass
    \/ GetInfoForExpanding
    \/ RenderTemplate
    \/ CheckPatch
    \/ ApplyPatchTry
    \/ ApplyPatchWrite
    \/ ApplyPatchMove
    \/ GitApply
    \/ Finish

Spec == Init /\ [][Next]_vars

(***************************************************************************)
(* SpecGenerate: the two generating commands, expand_class and             *)
(* create_from_class of ComponentCreateFromClass, from the constructed     *)
(* object to the return or the raise.                                      *)
(***************************************************************************)
\* the values of repo_type: nf-core names a pipeline repository "pipeline";
\* expand_class and create_from_class compare with "pipelines"
RepoTypes == {"modules", "pipeline", "pipelines"}

\* the files of a module: tests/tags.yml is popped from file_paths
CreateFiles == {"main.nf", "meta.yml", "environment.yml", "tests/main.nf.test"}

\* faulty variant: a directory is taken for a value
get_qualifier_directory_as_val(type) ==
    IF type \in {"map", "string", "integer", "float", "boolean", "directory"} THEN "val"
    ELSE IF type = "file" THEN "path"
    ELSE ""

\* _get_qualifier
_get_qualifier(type) ==
    IF type \in {"map", "string", "integer", "float", "boolean"} THEN "val"
    ELSE IF type \in {"file", "directory"} THEN "path"
    ELSE ""

\* the characters of the element names of the class YAMLs
NameChars(name) ==
    CASE name = "meta" -> <<"m", "e", "t", "a">>
      [] name = "fasta" -> <<"f", "a", "s", "t", "a">>
      [] name = "fasta_file" -> <<"f", "a", "s", "t", "a", "_", "f", "i", "l", "e">>
      [] name = "*.aln" -> <<"*", ".", "a", "l", "n">>
      [] name = "opts2" -> <<"o", "p", "t", "s", "2">>
      [] name = "n1" -> <<"n", "1">>
      [] name = "ratio" -> <<"r", "a", "t", "i", "o">>
      [] name = "flag" -> <<"f", "l", "a", "g">>
      [] name = "versions.yml" ->
            <<"v", "e", "r", "s", "i", "o", "n", "s", ".", "y", "m", "l">>

\* str.isalnum for one character
IsAlnum(c) == c \notin {"_", "*", ".", "/", "-", " "}

\* the element name as it is written: quoted when any(not c.isalnum())
WrittenName(name) ==
    IF \E i \in 1..Len(NameChars(name)) : ~IsAlnum(NameChars(name)[i])
    THEN "\"" \o name \o "\""
    ELSE name

\* f"{qualifier}({element_name})"
QualifiedElement(element) ==
    _get_qualifier(element.info.type) \o "(" \o WrittenName(element.key) \o ")"

RECURSIVE InputElements(_)
\* the elements of an input channel, separated by ", "
InputElements(elems) ==
    IF elems = <<>> THEN ""
    ELSE IF Len(elems) = 1 THEN QualifiedElement(elems[1])
    ELSE QualifiedElement(elems[1]) \o ", " \o InputElements(Tail(elems))

\* self.inputs, one entry for each "\n"-terminated line
CreateInputs(input) ==
    [i \in 1..Len(input) |->
        (IF Len(input[i].elems) > 1 THEN "tuple " ELSE "") \o InputElements(input[i].elems)]

RECURSIVE WrittenNames(_)
WrittenNames(elems) ==
    IF elems = <<>> THEN <<>>
    ELSE <<WrittenName(elems[1].key)>> \o WrittenNames(Tail(elems))

RECURSIVE CreateInputVars(_)
\* self.input_vars
CreateInputVars(input) ==
    IF input = <<>> THEN <<>>
    ELSE WrittenNames(input[1].elems) \o CreateInputVars(Tail(input))

RECURSIVE OutputElements(_)
\* the elements of an output channel, each followed by ", "
OutputElements(elems) ==
    IF elems = <<>> THEN ""
    ELSE QualifiedElement(elems[1]) \o ", " \o OutputElements(Tail(elems))

\* self.outputs, one entry for each "\n\t"-terminated line
CreateOutputs(output) ==
    [i \in 1..Len(output) |->
        (IF Len(output[i].value) > 1 THEN "tuple " ELSE "")
            \o OutputElements(output[i].value) \o "emit: " \o output[i].key]

RECURSIVE CreateOutputVars(_)
\* self.output_vars
CreateOutputVars(output) ==
    IF output = <<>> THEN <<>>
    ELSE WrittenNames(output[1].value) \o CreateOutputVars(Tail(output))

\* class YAMLs as create_from_class reads them: the input a list of
\* channels, each a list of elements; the output a list of one-key dicts
\* from the channel name to a list of elements
CreateClassPool ==
    {[input |-> <<ListChannel(<<Meta, ClassFasta>>)>>,
      output |-> <<[key |-> "alignment", value |-> <<Meta, ClassAln>>]>>],
     [input |-> <<ListChannel(<<Elem("fasta_file", Info("file", FALSE, {}, NoPattern))>>),
                  ListChannel(<<Meta, Elem("opts2", Info("list", FALSE, {}, NoPattern))>>)>>,
      output |-> <<[key |-> "alignment", value |-> <<Meta, ClassAln>>],
                   [key |-> "versions", value |-> <<ModVersions>>]>>]}

\* the component directory before create_from_class: absent, or left by an
\* earlier run
CreateDirs ==
    {[f \in CreateFiles |-> NoFile], [f \in CreateFiles |-> StaleFile]}

\* the class YAML of the modules repository, as create_from_class reads it
RemoteContent(content) ==
    [has_modules |-> FALSE, modules |-> <<>>, input |-> content.input,
     output |-> content.output]

InitCreate ==
    /\ ChannelsIdle
    /\ cmp_pc = "idle"
    /\ CompareIdle
    /\ ClassIdle
    /\ run_module = <<>>
    /\ variant = "ClassExpand"
    /\ pc = "idle"
    /\ error = ""
    /\ repo_type \in RepoTypes
    /\ classname \in {"msa_alignment", "no_such_class"}
    /\ force \in BOOLEAN
    /\ expand_modules = <<>>
    /\ remote_class \in {RemoteContent(content) : content \in CreateClassPool}
    /\ patch_targets = {}
    /\ SelfFresh
    /\ files \in CreateDirs
    /\ patch_file = "absent"
    /\ temp_dir = NoDir
    /\ patch_applied = "no"
    /\ command = "ComponentCreateFromClass"
    /\ cmd_pc = "start"
    /\ cmd_error = ""
    /\ org = "my-org"
    /\ valid_directory = TRUE
    /\ directory = "."
    /\ cwd = "directory"
    /\ no_prompts = FALSE
    /\ asked = "unasked"
    /\ repo = <<>>
    /\ patch_temp = NoPatchTemp
    /\ class_name = ""
    /\ all_classes = FALSE
    /\ to_lint = <<>>
    /\ passed = <<>>
    /\ warned = <<>>
    /\ failed = <<>>
    /\ inputs = <<>>
    /\ input_vars = <<>>
    /\ outputs = <<>>
    /\ output_vars = <<>>

\* expand_class in a repository of any of the three types
InitExpand ==
    /\ ChannelsIdle
    /\ cmp_pc = "idle"
    /\ CompareIdle
    /\ ClassIdle
    /\ run_module = <<>>
    /\ variant \in {"ClassExpand", "SubworkflowExpandClass"}
    /\ pc = (IF ConstructorError(variant) = "" THEN "start" ELSE "raised")
    /\ error = ConstructorError(variant)
    /\ repo_type \in RepoTypes
    /\ classname \in {"msa_alignment", "no_such_class"}
    /\ force \in BOOLEAN
    /\ expand_modules \in {<<>>, ModD}
    /\ remote_class \in
            {[has_modules |-> FALSE, modules |-> <<>>]}
                \cup {[has_modules |-> TRUE, modules |-> m] :
                        m \in SeqsUpTo(ClassModulePool, MaxClassMods)}
    /\ SelfFresh
    /\ \E d \in InitialDirs :
            /\ files = d.files
            /\ patch_file = d.patch_file
            /\ patch_targets = d.targets
    /\ temp_dir = NoDir
    /\ patch_applied = "no"
    /\ ToolsIdle

InitGenerate == InitExpand \/ InitCreate

\* the state create_from_class does not touch
createIdleVars ==
    <<harnessVars, classVars, genVars, pc, error, optionVars, selfVars, patch_file,
      temp_dir, patch_applied, command, org, valid_directory, no_prompts, directory, cwd,
      asked, repo,
      patch_temp, lintVars>>

CmdRaise(e) == cmd_pc' = "raised" /\ cmd_error' = e

\* create_from_class, lines 89-90
CreateCheckRepoType ==
    /\ command = "ComponentCreateFromClass"
    /\ cmd_pc = "start"
    /\ IF repo_type = "pipelines"
       THEN CmdRaise("UserWarning: not supported for pipelines")
       ELSE cmd_pc' = "class_prompt" /\ cmd_error' = cmd_error
    /\ UNCHANGED <<createIdleVars, files, createVars>>

\* _collect_class_prompt (the class name is given, nothing is asked):
\* _get_available_classes lists the classes with Path.walk, which pathlib
\* has from Python 3.12 on; the package runs on Python 3.9 and later
CreateCollectClassPrompt ==
    /\ command = "ComponentCreateFromClass"
    /\ cmd_pc = "class_prompt"
    /\ \E path_has_walk \in BOOLEAN :
        IF ~path_has_walk
        THEN CmdRaise("AttributeError: 'PosixPath' object has no attribute 'walk'")
        ELSE IF classname \notin AvailableClasses
        THEN CmdRaise("UserWarning: class not found")
        ELSE cmd_pc' = "component_dirs" /\ cmd_error' = cmd_error
    /\ UNCHANGED <<createIdleVars, files, createVars>>

\* create_from_class, lines 99-127: the name is given; nf-core's
\* _get_component_dirs refuses an existing component without --force
CreateGetComponentDirs ==
    /\ command = "ComponentCreateFromClass"
    /\ cmd_pc = "component_dirs"
    /\ IF (\E f \in CreateFiles : files[f].exists) /\ ~force
       THEN CmdRaise("UserWarning: component exists, use --force")
       ELSE cmd_pc' = "class_info" /\ cmd_error' = cmd_error
    /\ UNCHANGED <<createIdleVars, files, createVars>>

\* _get_class_info: the class YAML is fetched, or the request fails
CreateGetClassInfo ==
    /\ command = "ComponentCreateFromClass"
    /\ cmd_pc = "class_info"
    /\ \E fetched \in BOOLEAN :
        IF ~fetched
        THEN /\ CmdRaise("HTTPError: class yml")
             /\ UNCHANGED <<createVars, inputs_yml, outputs_yml>>
        ELSE /\ inputs_yml' = remote_class.input
             /\ outputs_yml' = remote_class.output
             /\ inputs' = CreateInputs(remote_class.input)
             /\ input_vars' = CreateInputVars(remote_class.input)
             /\ outputs' = CreateOutputs(remote_class.output)
             /\ output_vars' = CreateOutputVars(remote_class.output)
             /\ cmd_pc' = "render"
             /\ cmd_error' = cmd_error
    /\ UNCHANGED <<harnessVars, variant, input_channels, genVars, pc, error, optionVars,
                   selfVars, dirVars, command, org, valid_directory, no_prompts,
                   directory, cwd, asked,
                   repo, patch_temp, lintVars>>

\* vars(self), as far as the templates of a module can show it
CreateObjectAttrs ==
    [inputs |-> inputs, input_vars |-> input_vars, outputs |-> outputs,
     output_vars |-> output_vars, inputs_yml |-> inputs_yml, outputs_yml |-> outputs_yml]

\* _render_template: every file of self.file_paths is rendered and
\* written, and create_from_class returns
CreateRenderTemplate ==
    /\ command = "ComponentCreateFromClass"
    /\ cmd_pc = "render"
    /\ files' = [f \in CreateFiles |-> RenderedFile(CreateObjectAttrs)]
    /\ cmd_pc' = "done"
    /\ UNCHANGED <<createIdleVars, cmd_error, createVars>>

NextCreate ==
    \/ CreateCheckRepoType
    \/ CreateCollectClassPrompt
    \/ CreateGetComponentDirs
    \/ CreateGetClassInfo
    \/ CreateRenderTemplate

NextGenerate == Next \/ NextCreate

SpecGenerate == InitGenerate /\ [][NextGenerate]_vars

(***************************************************************************)
(* SpecClassInfo: _get_class_info of ComponentCreateFromClass for class    *)
(* YAMLs with input channels of elements of every type.                    *)
(***************************************************************************)
\* elements a class YAML may declare: one of each type _get_qualifier
\* knows, and one of a type it does not know
CreateElementPool ==
    {Meta, ClassFasta,
     Elem("fasta_file", Info("directory", FALSE, {}, NoPattern)),
     Elem("*.aln", Info("string", FALSE, {}, NoPattern)),
     Elem("n1", Info("integer", FALSE, {}, NoPattern)),
     Elem("ratio", Info("float", FALSE, {}, NoPattern)),
     Elem("flag", Info("boolean", FALSE, {}, NoPattern)),
     Elem("opts2", Info("list", FALSE, {}, NoPattern))}

\* channels that come before the last channel of the class YAML
CreateChannelPool ==
    {ListChannel(<<Meta, ClassFasta>>),
     ListChannel(<<Elem("fasta_file", Info("directory", FALSE, {}, NoPattern))>>),
     ListChannel(<<Meta, Elem("*.aln", Info("string", FALSE, {}, NoPattern)),
                   Elem("flag", Info("boolean", FALSE, {}, NoPattern))>>)}

\* the object is constructed and create_from_class has reached
\* _get_class_info, in a modules repository, for a class that exists
InitClassInfo ==
    /\ ChannelsIdle
    /\ cmp_pc = "idle"
    /\ CompareIdle
    /\ ClassIdle
    /\ run_module = <<>>
    /\ variant = "ClassExpand"
    /\ pc = "idle"
    /\ error = ""
    /\ repo_type = "modules"
    /\ classname = "msa_alignment"
    /\ force \in BOOLEAN
    /\ expand_modules = <<>>
    /\ \E before \in SeqsUpTo(CreateChannelPool, MaxCreateChannels - 1),
          last \in SeqsUpTo(CreateElementPool, MaxCreateElems) :
            remote_class =
                RemoteContent([input |-> before \o <<ListChannel(last)>>,
                               output |-> <<[key |-> "alignment",
                                             value |-> <<Meta, ClassAln>>]>>])
    /\ patch_targets = {}
    /\ SelfFresh
    /\ files = IF force THEN [f \in CreateFiles |-> StaleFile]
               ELSE [f \in CreateFiles |-> NoFile]
    /\ patch_file = "absent"
    /\ temp_dir = NoDir
    /\ patch_applied = "no"
    /\ command = "ComponentCreateFromClass"
    /\ cmd_pc = "class_info"
    /\ cmd_error = ""
    /\ org = "my-org"
    /\ valid_directory = TRUE
    /\ directory = "."
    /\ cwd = "directory"
    /\ no_prompts = FALSE
    /\ asked = "unasked"
    /\ repo = <<>>
    /\ patch_temp = NoPatchTemp
    /\ class_name = ""
    /\ all_classes = FALSE
    /\ to_lint = <<>>
    /\ passed = <<>>
    /\ warned = <<>>
    /\ failed = <<>>
    /\ inputs = <<>>
    /\ input_vars = <<>>
    /\ outputs = <<>>
    /\ output_vars = <<>>

NextClassInfo == CreateGetClassInfo

SpecClassInfo == InitClassInfo /\ [][NextClassInfo]_vars

(***************************************************************************)
(* SpecPatch: ClassPatch.patch and ClassComponentPatch.patch, with the     *)
(* expand_class they run in a temporary directory.                         *)
(***************************************************************************)
RECURSIVE RunComponentsOf(_, _)
\* "Run the included modules" for the class YAML of the repository
RunComponentsOf(comps, which) ==
    IF comps = <<>> THEN <<>>
    ELSE RunComponentLines(Head(comps),
                           _compare_inputs(AppendTool(FlowClassInput),
                                           UpstreamMeta(Head(comps)).input,
                                           AccessInputs(Head(comps),
                                                        InputChannels(FlowClassInput)),
                                           which),
                           _compare_outputs(FlowClassOutput,
                                            UpstreamMeta(Head(comps)).output))
            \o RunComponentsOf(Tail(comps), which)

\* what the templates show after expand_class has expanded the class with
\* the modules comps
ExpandedAttrs(comps, which) ==
    [components_tags |-> ComponentsTags(comps, which),
     include_statements |-> IncludeStatements(comps),
     input_channels |-> InputChannels(FlowClassInput),
     run_module |->
        DeclareOutputs(FlowClassOutput)
            \o BranchChannels(comps,
                              [i \in 1..Len(FlowClassInput) |->
                                    InputChannelKey(FlowClassInput[i])])
            \o <<"">> \o RunComponentsOf(comps, which),
     tests |-> GenerateNftestCode(comps, FlowTestData)]

\* a subworkflow directory of the repository: its files, its patch file,
\* what the patch file records, and the files whose os.stat signature
\* (size and modification time) is the one the file of a new expansion
\* gets: none, unless a file was written to that length and its time set
\* to that instant
RepoDir(dir_files, dir_patch, targets) ==
    [files |-> dir_files, patch_file |-> dir_patch, targets |-> targets, diff |-> NoDiff,
     same_stat |-> {}]

NoRepoDir == RepoDir(NoDir.files, "absent", {})

\* the files of a subworkflow expanded with the modules comps, the files
\* of edited changed by hand afterwards, the files of missing deleted
ExpandedFiles(comps, which, edited, missing) ==
    [f \in Files |->
        IF f \in missing THEN NoFile
        ELSE IF f \in edited THEN Patched(RenderedFile(ExpandedAttrs(comps, which)))
        ELSE RenderedFile(ExpandedAttrs(comps, which))]

\* the directory of a subworkflow before the command: expanded from the
\* modules the class lists now (comps) or from another list, edited or not,
\* with or without a patch file, complete or not
CurrentDirs(comps, which) ==
    {RepoDir(ExpandedFiles(comps, which, {}, {}), "absent", {}),
     RepoDir(ExpandedFiles(comps, which, {"main.nf"}, {}), "absent", {}),
     RepoDir(ExpandedFiles(comps, which, {"main.nf"}, {}), "original", {"main.nf"}),
     RepoDir(ExpandedFiles(<<ModD>>, which, {}, {}), "absent", {}),
     RepoDir(ExpandedFiles(comps, which, {}, {"meta.yml"}), "original", {"main.nf"}),
     RepoDir(ExpandedFiles(comps, which, {"tests/main.nf.test"}, {"main.nf"}),
             "original", {"tests/main.nf.test"})}

\* the class a command constructs to expand the class
VariantOf(cmd) ==
    IF cmd = "ClassComponentPatch" THEN "SubworkflowExpandClass" ELSE "ClassExpand"

InitPatch ==
    /\ ChannelsIdle
    /\ cmp_pc = "idle"
    /\ CompareIdle
    /\ ClassIdle
    /\ run_module = <<>>
    /\ command \in {"ClassPatch", "ClassComponentPatch"}
    /\ variant = VariantOf(command)
    /\ pc = "idle"
    /\ error = ""
    /\ repo_type \in RepoTypes
    /\ classname \in {"", "msa_alignment", "plain_swf", "no_such_class"}
    /\ force = FALSE
    /\ expand_modules = <<>>
    /\ remote_class \in
            {[has_modules |-> FALSE, modules |-> <<>>]}
                \cup {[has_modules |-> TRUE, modules |-> m] :
                        m \in SeqsUpTo(ClassModulePool, MaxClassMods)}
    /\ patch_targets = {}
    /\ SelfFresh
    /\ files = NoDir.files
    /\ patch_file = "absent"
    /\ temp_dir = NoDir
    /\ patch_applied = "no"
    /\ cmd_pc = "start"
    /\ cmd_error = ""
    /\ org \in {"my-org", "nf-core"}
    /\ valid_directory \in BOOLEAN
    /\ cwd \in (IF command = "ClassComponentPatch" THEN Cwds ELSE {"directory"})
    /\ directory = (IF cwd = "directory" THEN "." ELSE "/repo")
    /\ no_prompts \in (IF command = "ClassPatch" THEN BOOLEAN ELSE {FALSE})
    /\ asked = "unasked"
    /\ \E d \in CurrentDirs(IF remote_class.has_modules THEN remote_class.modules
                            ELSE <<>>, "ClassExpand") :
            repo = [c \in RepoSubworkflows |-> d]
    /\ patch_temp = NoPatchTemp
    /\ class_name = ""
    /\ all_classes = FALSE
    /\ to_lint = <<>>
    /\ passed = <<>>
    /\ warned = <<>>
    /\ failed = <<>>
    /\ inputs = <<>>
    /\ input_vars = <<>>
    /\ outputs = <<>>
    /\ output_vars = <<>>

\* the state patch does not touch itself
patchIdleVars ==
    <<harnessVars, classVars, genVars, error, repo_type, force, expand_modules,
      remote_class, patch_targets, selfVars, dirVars, command, org, valid_directory,
      directory, cwd,
      no_prompts, lintVars, createVars>>

\* the directory of the subworkflow name in the repository
CurrentDir(name) == IF name \in RepoSubworkflows THEN repo[name] ELSE NoRepoDir

\* faulty variant: the name is not looked up among the subworkflows
parameter_checks_without_name ==
    IF repo_type # "modules"
    THEN "UserWarning: not a modules repository"
    ELSE IF org = "nf-core"
    THEN "UserWarning: not in the nf-core organisation"
    ELSE IF ~valid_directory
    THEN "UserWarning: not a valid modules repository"
    ELSE ""

\* _parameter_checks: the message of the UserWarning it raises, or ""
_parameter_checks ==
    IF repo_type # "modules"
    THEN "UserWarning: not a modules repository"
    ELSE IF org = "nf-core"
    THEN "UserWarning: not in the nf-core organisation"
    ELSE IF ~valid_directory
    THEN "UserWarning: not a valid modules repository"
    ELSE IF classname # "" /\ classname \notin RepoSubworkflows
    THEN "UserWarning: subworkflow not found"
    ELSE ""

\* patch, lines 64-65
PatchParameterChecks ==
    /\ command \in {"ClassPatch", "ClassComponentPatch"}
    /\ cmd_pc = "start"
    /\ IF _parameter_checks # ""
       THEN CmdRaise(_parameter_checks)
       ELSE /\ cmd_pc' = IF classname = "" THEN "ask_name" ELSE "existing"
            /\ cmd_error' = cmd_error
    /\ UNCHANGED <<patchIdleVars, pc, classname, asked, repo, patch_temp>>

\* patch, lines 67-72: the name is asked for; the answer is any text
PatchAskName ==
    /\ command \in {"ClassPatch", "ClassComponentPatch"}
    /\ cmd_pc = "ask_name"
    /\ classname' \in RepoSubworkflows \cup {"no_such_class"}
    /\ cmd_pc' = "existing"
    /\ UNCHANGED <<patchIdleVars, pc, cmd_error, asked, repo, patch_temp>>

\* os.remove(patch_path)
RemovePatch(name) ==
    [repo EXCEPT ![name] = [@ EXCEPT !.patch_file = "absent", !.targets = {},
                                     !.diff = NoDiff]]

\* faulty variant: the patch is removed whatever the answer
check_existing_always_removes ==
    /\ command \in {"ClassPatch", "ClassComponentPatch"}
    /\ cmd_pc = "existing"
    /\ IF CurrentDir(classname).patch_file = "absent"
       THEN /\ cmd_pc' = "read_meta"
            /\ UNCHANGED <<asked, repo>>
       ELSE /\ repo' = RemovePatch(classname)
            /\ IF command = "ClassComponentPatch" \/ ~no_prompts
               THEN \E remove \in BOOLEAN :
                        /\ asked' = IF remove THEN "yes" ELSE "no"
                        /\ cmd_pc' = IF remove THEN "read_meta" ELSE "declined"
               ELSE /\ asked' = asked
                    /\ cmd_pc' = "read_meta"
    /\ UNCHANGED <<patchIdleVars, pc, classname, cmd_error, patch_temp>>

\* patch, lines 83-93 (ClassComponentPatch, lines 64-72, always asks): an
\* existing patch is removed after the user confirms, or without asking
\* with no_prompts; when the user declines, patch returns
PatchCheckExisting ==
    /\ command \in {"ClassPatch", "ClassComponentPatch"}
    /\ cmd_pc = "existing"
    /\ IF CurrentDir(classname).patch_file = "absent"
       THEN /\ cmd_pc' = "read_meta"
            /\ UNCHANGED <<asked, repo>>
       ELSE IF command = "ClassComponentPatch" \/ ~no_prompts
       THEN \E remove \in BOOLEAN :
                /\ asked' = IF remove THEN "yes" ELSE "no"
                /\ IF remove
                   THEN repo' = RemovePatch(classname) /\ cmd_pc' = "read_meta"
                   ELSE repo' = repo /\ cmd_pc' = "declined"
       ELSE /\ repo' = RemovePatch(classname)
            /\ asked' = asked
            /\ cmd_pc' = "read_meta"
    /\ UNCHANGED <<patchIdleVars, pc, classname, cmd_error, patch_temp>>

\* whether the open of meta.yml finds a file: ClassPatch opens
\* Path(self.directory, component_relpath, "meta.yml"); ClassComponentPatch
\* (line 76) opens the relative path component_relpath / "meta.yml", which
\* is the file of the repository only when the working directory is
\* self.directory, and a file of the working directory otherwise
MetaOpened ==
    IF command = "ClassComponentPatch" /\ cwd # "directory"
    THEN cwd = "clone"
    ELSE CurrentDir(classname).files["meta.yml"].exists

\* patch, lines 95-124: meta.yml of the current subworkflow is read, the
\* temporary directory is made, the expanding object is constructed and
\* expand_class is called in it. The TypeError of the constructor of
\* SubworkflowExpandClass (ClassComponentPatch, lines 92-97) is no
\* UserWarning and goes through
PatchReadMeta ==
    /\ command \in {"ClassPatch", "ClassComponentPatch"}
    /\ cmd_pc = "read_meta"
    /\ IF ~MetaOpened
       THEN CmdRaise("FileNotFoundError: meta.yml") /\ pc' = pc
       ELSE IF ConstructorError(variant) # ""
       THEN CmdRaise(ConstructorError(variant)) /\ pc' = pc
       ELSE cmd_pc' = "expanding" /\ cmd_error' = cmd_error /\ pc' = "start"
    /\ UNCHANGED <<patchIdleVars, classname, asked, repo, patch_temp>>

\* the exceptions of expand_class that are UserWarning
ExpandUserWarnings ==
    {"UserWarning: not supported for pipelines", "UserWarning: class not found",
     "UserWarning: component exists, use --force"}

\* patch, lines 113-126: expand_class returned, or raised: a UserWarning
\* is raised again as UserWarning, any other exception goes through
PatchExpandReturned ==
    /\ command \in {"ClassPatch", "ClassComponentPatch"}
    /\ cmd_pc = "expanding"
    /\ pc \in {"done", "raised"}
    /\ IF pc = "done"
       THEN cmd_pc' = "write_diff" /\ cmd_error' = cmd_error
       ELSE IF error \in ExpandUserWarnings
       THEN CmdRaise("UserWarning: failed to expand class")
       ELSE CmdRaise(error)
    /\ UNCHANGED <<patchIdleVars, pc, classname, asked, repo, patch_temp>>

\* faulty variant: the differences are taken from the current subworkflow
\* to the generated one
diff_reversed(from_files, to_files) ==
    [changed |-> {f \in Files : from_files[f] # to_files[f]},
     from |-> to_files, to |-> from_files]

\* what ComponentsDiffer.write_diff_file records: the files that differ,
\* from the files of one directory to those of another
Diff(from_files, to_files) ==
    [changed |-> {f \in Files : from_files[f] # to_files[f]},
     from |-> from_files, to |-> to_files]

\* patch, lines 128-153: the diff from the generated to the current
\* subworkflow is written to a temporary file; without differences
\* write_diff_file raises UserWarning
PatchWriteDiff ==
    /\ command \in {"ClassPatch", "ClassComponentPatch"}
    /\ cmd_pc = "write_diff"
    /\ IF Diff(files, CurrentDir(classname).files).changed = {}
       THEN /\ CmdRaise("UserWarning: unchanged, no patch to compute")
            /\ patch_temp' = patch_temp
       ELSE /\ patch_temp' = [written |-> TRUE,
                              diff |-> Diff(files, CurrentDir(classname).files)]
            /\ cmd_pc' = "move"
            /\ cmd_error' = cmd_error
    /\ UNCHANGED <<patchIdleVars, pc, classname, asked, repo>>

\* patch, lines 155-157: shutil.move(patch_temp_path, patch_path)
PatchMove ==
    /\ command \in {"ClassPatch", "ClassComponentPatch"}
    /\ cmd_pc = "move"
    /\ repo' = [repo EXCEPT ![classname] =
                    [@ EXCEPT !.patch_file = "regenerated",
                              !.targets = patch_temp.diff.changed,
                              !.diff = patch_temp.diff]]
    /\ patch_temp' = NoPatchTemp
    /\ cmd_pc' = "done"
    /\ UNCHANGED <<patchIdleVars, pc, classname, cmd_error, asked>>

NextPatch ==
    \/ PatchParameterChecks
    \/ PatchAskName
    \/ PatchCheckExisting
    \/ PatchReadMeta
    \/ CheckRepoType
    \/ CollectClassPrompt
    \/ GetComponentDirs
    \/ GetClassInfo
    \/ GetModulesFromClass
    \/ GetInfoForExpanding
    \/ RenderTemplate
    \/ CheckPatch
    \/ Finish
    \/ PatchExpandReturned
    \/ PatchWriteDiff
    \/ PatchMove

SpecPatch == InitPatch /\ [][NextPatch]_vars

(***************************************************************************)
(* SpecLint: ClassLint, from the constructor to the return of lint, with   *)
(* the expand_class that class_changes runs for every class.               *)
(***************************************************************************)
\* get_available_classes: the class names, sorted
RemoteComponents == <<"msa_alignment", "tree_inference">>

\* files_to_compare
FilesToCompare == <<"main.nf", "meta.yml", "tests/main.nf.test">>

\* the files of the repository that were given the size and the
\* modification time of the files lint renders: none, main.nf, all
StatCoincidences == {{}, {"main.nf"}, Files}

\* the directory dir with the os.stat signatures of the files of stat,
\* as far as it has them, equal to those of the files of a new expansion
WithSameStat(dir, stat) ==
    [dir EXCEPT !.same_stat = {f \in stat : dir.files[f].exists}]

\* the truth value Python gives class_name: None and '' are false
Truthy(name) == name \notin {None, ""}

InitLint ==
    /\ ChannelsIdle
    /\ cmp_pc = "idle"
    /\ CompareIdle
    /\ ClassIdle
    /\ run_module = <<>>
    /\ variant = "ClassExpand"
    /\ pc = "idle"
    /\ error = ""
    /\ repo_type \in RepoTypes
    /\ classname = ""
    /\ force = TRUE
    /\ expand_modules = <<>>
    /\ remote_class \in
            {[has_modules |-> FALSE, modules |-> <<>>]}
                \cup {[has_modules |-> TRUE, modules |-> m] :
                        m \in SeqsUpTo(ClassModulePool, MaxClassMods)}
    /\ patch_targets = {}
    /\ SelfFresh
    /\ files = NoDir.files
    /\ patch_file = "absent"
    /\ temp_dir = NoDir
    /\ patch_applied = "no"
    /\ command = "ClassLint"
    /\ cmd_pc = "init"
    /\ cmd_error = ""
    /\ org = "my-org"
    /\ valid_directory = TRUE
    /\ directory \in Directories
    /\ cwd = (IF directory = "." THEN "directory" ELSE "elsewhere")
    /\ no_prompts = FALSE
    /\ asked = "unasked"
    /\ \E d1, d2 \in CurrentDirs(IF remote_class.has_modules THEN remote_class.modules
                                 ELSE <<>>, "ClassExpand"),
          stat \in StatCoincidences :
            repo = [c \in RepoSubworkflows |->
                        IF c = "msa_alignment" THEN WithSameStat(d1, stat)
                        ELSE IF c = "tree_inference" THEN WithSameStat(d2, stat)
                        ELSE NoRepoDir]
    /\ patch_temp = NoPatchTemp
    /\ class_name \in {None, "", "msa_alignment", "tree_inference", "no_such_class"}
    /\ all_classes \in BOOLEAN
    /\ to_lint = <<>>
    /\ passed = <<>>
    /\ warned = <<>>
    /\ failed = <<>>
    /\ inputs = <<>>
    /\ input_vars = <<>>
    /\ outputs = <<>>
    /\ output_vars = <<>>

\* the state lint leaves alone outside class_changes
lintIdleVars ==
    <<harnessVars, classVars, genVars, pc, error, optionVars, selfVars, dirVars, command,
      org, valid_directory, no_prompts, directory, cwd, asked, repo, patch_temp,
      createVars>>

\* ClassLint.__init__, lines 75-100: a pipeline repository is refused
LintInit ==
    /\ command = "ClassLint"
    /\ cmd_pc = "init"
    /\ IF repo_type = "pipeline"
       THEN CmdRaise("LookupError: cannot lint a class in a pipeline repository")
       ELSE cmd_pc' = "select" /\ cmd_error' = cmd_error
    /\ UNCHANGED <<lintIdleVars, lintVars>>

\* lint, lines 126-154: what to lint is asked for when class_name is None
\* and all_classes is not set: "All classes" leaves class_name None, "Named
\* class" takes the text typed, which may be empty. A class_name that is
\* None or '' lints every class; a name together with all_classes, and a
\* name that is no class, raise LintExceptionError. all_remote_components
\* is only set for a modules repository: elsewhere the first read of it
\* raises AttributeError, and a class name together with all_classes
\* raises LintExceptionError before anything reads it
LintSelect ==
    /\ command = "ClassLint"
    /\ cmd_pc = "select"
    /\ IF repo_type # "modules"
       THEN /\ IF Truthy(class_name) /\ all_classes
               THEN CmdRaise("LintExceptionError: a class and all classes")
               ELSE CmdRaise("AttributeError: all_remote_components")
            /\ UNCHANGED <<class_name, all_classes, to_lint>>
       ELSE \E answer \in {"given", "All classes", ""}
                            \cup AvailableClasses \cup {"no_such_class"} :
            /\ IF class_name = None /\ ~all_classes /\ Len(RemoteComponents) > 0
               THEN /\ answer # "given"
                    /\ all_classes' = (answer = "All classes")
                    /\ class_name' = IF answer = "All classes" THEN None ELSE answer
               ELSE /\ answer = "given"
                    /\ UNCHANGED <<class_name, all_classes>>
            /\ IF Truthy(class_name')
               THEN IF all_classes'
                    THEN CmdRaise("LintExceptionError: a class and all classes")
                            /\ to_lint' = to_lint
                    ELSE IF SelectSeq(RemoteComponents, LAMBDA c : c = class_name') = <<>>
                    THEN CmdRaise("LintExceptionError: could not find the class")
                            /\ to_lint' = to_lint
                    ELSE /\ to_lint' = SelectSeq(RemoteComponents,
                                                 LAMBDA c : c = class_name')
                         /\ cmd_pc' = "class_changes"
                         /\ cmd_error' = cmd_error
               ELSE /\ to_lint' = RemoteComponents
                    /\ cmd_pc' = "class_changes"
                    /\ cmd_error' = cmd_error
    /\ UNCHANGED <<lintIdleVars, passed, warned, failed>>

\* the position of a class in to_lint
PositionOf(name) == CHOOSE i \in 1..Len(to_lint) : to_lint[i] = name

\* the class the loop of lint takes next
NextClass == IF classname = "" THEN to_lint[1] ELSE to_lint[PositionOf(classname) + 1]

\* class_changes, lines 176-190: the author is read from meta.yml, the
\* subworkflow is copied with its patch file into a temporary directory
\* and expand_class is called there with force. swf.component_dir (line
\* 91) already starts with self.directory, and lines 178-180 join it to
\* self.directory and to the temporary directory again: with "." the
\* paths are the intended ones; with another relative directory the
\* source is <directory>/<directory>/subworkflows/..., which is not there,
\* and the open of meta.yml raises; with an absolute directory the join
\* drops its left side, so that the source is right and the target of
\* copytree is the source itself, which exists
LintStartClass ==
    /\ command = "ClassLint"
    /\ cmd_pc = "class_changes"
    /\ classname' = NextClass
    /\ IF directory = "repo" \/ ~repo[NextClass].files["meta.yml"].exists
       THEN /\ CmdRaise("FileNotFoundError: meta.yml")
            /\ UNCHANGED <<pc, files, patch_file, patch_targets>>
       ELSE IF directory = "/repo"
       THEN /\ CmdRaise("FileExistsError: subworkflows/<org>/<class>")
            /\ UNCHANGED <<pc, files, patch_file, patch_targets>>
       ELSE /\ cmd_pc' = "expanding"
            /\ cmd_error' = cmd_error
            /\ pc' = "start"
            /\ files' = repo[NextClass].files
            /\ patch_file' = repo[NextClass].patch_file
            /\ patch_targets' = repo[NextClass].targets
    /\ error' = ""
    /\ inputs_yml' = <<>>
    /\ outputs_yml' = <<>>
    /\ input_channels' = <<>>
    /\ run_module' = <<>>
    /\ class_modules' = <<>>
    /\ components' = <<>>
    /\ test_datasets' = <<>>
    /\ components_tags' = <<>>
    /\ include_statements' = <<>>
    /\ tests' = <<>>
    /\ components_args_inputs' = <<>>
    /\ components_names_outputs' = <<>>
    /\ temp_dir' = NoDir
    /\ patch_applied' = "no"
    /\ UNCHANGED <<harnessVars, variant, repo_type, force, expand_modules, remote_class,
                   command, org, valid_directory, no_prompts, directory, cwd, asked,
                   repo, patch_temp,
                   lintVars, createVars>>

\* _swf_files_identical: filecmp.cmp(f1, f2) is called with shallow=True:
\* two files with the same os.stat signature (size and modification time,
\* the files of same_stat) are equal without being read; otherwise the
\* contents are compared; a missing file leaves False
_swf_files_identical(files_1, files_2, same_stat) ==
    [f \in Files |->
        /\ files_1[f].exists
        /\ files_2[f].exists
        /\ (f \in same_stat \/ files_1[f] = files_2[f])]

\* LintResult(component=swf, ..., file_path=...)
LintResult(swf, f) == [component |-> swf, file_path |-> f]

\* the results class_changes appends to a list: those of the files whose
\* comparison gave same, in the order of files_to_compare
ResultsOf(swf, compared_files, same) ==
    LET picked == SelectSeq(FilesToCompare, LAMBDA f : compared_files[f] = same)
    IN  [i \in 1..Len(picked) |-> LintResult(swf, picked[i])]

\* class_changes, lines 191-213: expand_class returned and the files of
\* the temporary copy are compared with those of the repository, or it
\* raised and lint raises with it
LintCompare ==
    /\ command = "ClassLint"
    /\ cmd_pc = "expanding"
    /\ pc \in {"done", "raised"}
    /\ IF pc = "raised"
       THEN CmdRaise(error) /\ UNCHANGED <<passed, failed>>
       ELSE /\ passed' = passed \o ResultsOf(classname,
                    _swf_files_identical(files, repo[classname].files,
                                         repo[classname].same_stat), TRUE)
            /\ failed' = failed \o ResultsOf(classname,
                    _swf_files_identical(files, repo[classname].files,
                                         repo[classname].same_stat), FALSE)
            /\ cmd_pc' = IF PositionOf(classname) = Len(to_lint)
                         THEN "print" ELSE "class_changes"
            /\ cmd_error' = cmd_error
    /\ UNCHANGED <<lintIdleVars, class_name, all_classes, to_lint, warned>>

RECURSIVE SortResults(_, _)
\* list.sort by the component name: the results of the classes in the
\* order names, each class's results in the order they had
SortResults(results, names) ==
    IF names = <<>> THEN <<>>
    ELSE SelectSeq(results, LAMBDA r : r.component = Head(names))
            \o SortResults(results, Tail(names))

\* lint, lines 166-168: _print_results sorts the three lists, and lint
\* returns
LintPrintResults ==
    /\ command = "ClassLint"
    /\ cmd_pc = "print"
    /\ passed' = SortResults(passed, RemoteComponents)
    /\ warned' = SortResults(warned, RemoteComponents)
    /\ failed' = SortResults(failed, RemoteComponents)
    /\ cmd_pc' = "done"
    /\ UNCHANGED <<lintIdleVars, cmd_error, class_name, all_classes, to_lint>>

NextLint ==
    \/ LintInit
    \/ LintSelect
    \/ LintStartClass
    \/ Next
    \/ LintCompare
    \/ LintPrintResults

SpecLint == InitLint /\ [][NextLint]_vars

(***************************************************************************)
(* SpecNftest: _generate_nftest_code of ClassExpand for lists of modules   *)
(* and of test datasets.                                                   *)
(***************************************************************************)
TestModulePool == {ModA, ModB, ModD}

\* test datasets: quoted strings; a string and a number; a string with
\* quotes of both kinds; a number
QuotedData == <<Str(<<"\"", "m", "\"">>), Str(<<"'", "f", "'">>)>>

NumberData == <<Str(<<"m">>), NonStr(<<"1">>)>>

MixedQuotesData == <<Str(<<"'", "'", "q", "\"", "'">>)>>

OnlyNumberData == <<NonStr(<<"1">>)>>

DatasetPool == {QuotedData, NumberData, MixedQuotesData, OnlyNumberData}

InitNftest ==
    /\ ChannelsIdle
    /\ cmp_pc = "nftest"
    /\ CompareIdle
    /\ ClassIdle
    /\ variant = "ClassExpand"
    /\ run_module = <<>>
    /\ pc = "idle"
    /\ error = ""
    /\ repo_type = "modules"
    /\ classname = ""
    /\ force = FALSE
    /\ expand_modules = <<>>
    /\ remote_class = [has_modules |-> FALSE, modules |-> <<>>]
    /\ patch_targets = {}
    /\ class_modules = <<>>
    /\ components \in SeqsUpTo(TestModulePool, MaxTestMods)
    /\ test_datasets \in SeqsUpTo(DatasetPool, MaxDatasets)
    /\ components_tags = <<>>
    /\ include_statements = <<>>
    /\ tests = <<>>
    /\ components_args_inputs = <<>>
    /\ components_names_outputs = <<>>
    /\ files = NoDir.files
    /\ patch_file = "absent"
    /\ temp_dir = NoDir
    /\ patch_applied = "no"
    /\ ToolsIdle

\* _generate_nftest_code
GenerateNftest ==
    /\ cmp_pc = "nftest"
    /\ tests' = GenerateNftestCode(components, test_datasets)
    /\ cmp_pc' = "generated"
    /\ UNCHANGED <<component_element, class_element, channels_equal, component_meta,
                   component_args, component_outs, classVars, genVars, pc, error,
                   optionVars, class_modules, components, test_datasets, components_tags,
                   include_statements, components_args_inputs, components_names_outputs,
                   dirVars, toolVars>>

NextNftest == GenerateNftest

SpecNftest == InitNftest /\ [][NextNftest]_vars

(***************************************************************************)
(* Properties.                                                             *)
(***************************************************************************)
\* the accessor names handed to _compare_inputs by the harness
HarnessNames == AccessInputs(HarnessComponent, input_channels)

\* class input channel i equals some input channel of the module
ClassInputMatched(i) ==
    \E j \in 1..Len(component_meta.input) :
        InputChannelMatches(component_meta.input[j], inputs_yml[i])

\* some class input channel that carries the accessor name of channel i
\* equals an input channel of the module
AccessorMatched(i) ==
    \E k \in 1..Len(inputs_yml) :
        HarnessNames[k] = HarnessNames[i] /\ ClassInputMatched(k)

DistinctNames(names) ==
    \A i, k \in 1..Len(names) : names[i] = names[k] => i = k

\* C1: _compare_inputs returns a list only if the accessor name of every
\* class input channel occurs in the list, put there by a module channel
\* that matched a class channel of that name (so, the accessor names being
\* distinct, only if every class channel was matched by a module channel);
\* when a class channel's accessor name has no matching module channel the
\* result is None.
C1_InputsAllMatched ==
    cmp_pc \in {"compared_inputs", "called"} =>
        /\ ~component_args.none =>
                \A i \in 1..Len(inputs_yml) :
                    /\ InList(HarnessNames[i], component_args.args)
                    /\ AccessorMatched(i)
        /\ (~component_args.none /\ DistinctNames(HarnessNames)) =>
                \A i \in 1..Len(inputs_yml) : ClassInputMatched(i)
        /\ (\E i \in 1..Len(inputs_yml) : ~AccessorMatched(i)) => component_args.none

\* C1 witness: two class channels with different names, both matched, and
\* a list was returned
C1_Witness ==
    /\ cmp_pc = "compared_inputs"
    /\ Len(inputs_yml) = 2
    /\ HarnessNames[1] # HarnessNames[2]
    /\ ~component_args.none
    /\ \A i \in 1..2 : ClassInputMatched(i)

\* the module output channel named name
ModOutput(name) == DictGet(component_meta.output, name)

\* the notion of two first entries matching: same kind, same
\* number of elements, elementwise matching elements
EntriesAgree(component_entry, class_entry) ==
    /\ component_entry.kind = class_entry.kind
    /\ Len(component_entry.elems) = Len(class_entry.elems)
    /\ \A i \in 1..Len(class_entry.elems) :
            _compare_channels(component_entry.elems[i].info, class_entry.elems[i].info)

\* C2: _compare_outputs returns a mapping only when every class output
\* channel name is a key of it; every key is a class output channel name
\* and its value names a module output channel whose first entry has the
\* kind, the number of elements and elementwise matching elements of that
\* class channel; when some class channel has no such module channel the
\* result is None.
C2_OutputsMapping ==
    cmp_pc = "compared_outputs" =>
        /\ ~component_outs.none =>
                /\ \A i \in 1..Len(outputs_yml) :
                        DictHas(component_outs.outs, outputs_yml[i].key)
                /\ \A i \in 1..Len(component_outs.outs) :
                        /\ DictHas(outputs_yml, component_outs.outs[i].key)
                        /\ DictHas(component_meta.output, component_outs.outs[i].value)
                        /\ EntriesAgree(ModOutput(component_outs.outs[i].value)[1],
                                        DictGet(outputs_yml, component_outs.outs[i].key)[1])
                /\ \A i, k \in 1..Len(component_outs.outs) :
                        component_outs.outs[i].key = component_outs.outs[k].key => i = k
        /\ (\E i \in 1..Len(outputs_yml) :
                \A j \in 1..Len(component_meta.output) :
                    ~EntriesAgree(component_meta.output[j].value[1], outputs_yml[i].value[1]))
                => component_outs.none
        /\ component_outs.none => component_outs.outs = <<>>

\* C2 witness: a mapping for two class output channels was returned
C2_Witness ==
    /\ cmp_pc = "compared_outputs"
    /\ Len(outputs_yml) = 2
    /\ ~component_outs.none
    /\ Len(component_outs.outs) = 2
    /\ component_outs.outs[1].value # component_outs.outs[2].value

\* C3 (as claimed): _compare_channels reports a match only if the two
\* elements have the same type and every ontology term declared by the
\* class element is among the ontology terms of the module element.
C3_MatchNeedsClassOntologies ==
    (channels_equal.done /\ channels_equal.value) =>
        /\ component_element.type = class_element.type
        /\ class_element.ontologies \subseteq component_element.ontologies

\* C4 (as claimed): two elements of the same type that declare different
\* filename patterns are not a match.
C4_PatternsMustAgree ==
    (/\ channels_equal.done
     /\ component_element.type = class_element.type
     /\ component_element.pattern # NoPattern
     /\ class_element.pattern # NoPattern
     /\ component_element.pattern # class_element.pattern) => ~channels_equal.value

\* the text of a list of n empty lists, written out
ListOfEmptyLists(n) ==
    CASE n = 2 -> "[[], []]"
      [] n = 3 -> "[[], [], []]"
      [] n = 4 -> "[[], [], [], []]"

\* the argument C9 expects for module input channel j
C9_ExpectedArg(j) ==
    LET channel == component_meta.input[j]
        matching == {i \in 1..Len(inputs_yml) : InputChannelMatches(channel, inputs_yml[i])}
    IN  IF matching # {}
        THEN input_channels[CHOOSE i \in matching : \A k \in matching : i <= k]
                \o "_branch.a_x"
        ELSE IF Len(channel.elems) = 1 THEN "[]"
        ELSE ListOfEmptyLists(Len(channel.elems))

\* C9: for a compatible module the call generated by ClassExpand passes
\* one argument per declared input channel of the module, in the module's
\* order: '<channel>_branch.<module>' of the (first) class channel the
\* module channel matches, '[]' for an unmatched channel with one element,
\* a list of n empty lists for an unmatched channel with n > 1 elements.
C9_CallArguments ==
    (cmp_pc = "called" /\ variant = "ClassExpand" /\ ~component_args.none) =>
        /\ Len(component_args.args) = Len(component_meta.input)
        /\ \A j \in 1..Len(component_meta.input) :
                component_args.args[j] = C9_ExpectedArg(j)
        /\ component_meta.input # <<>> =>
                run_module =
                    <<"    A_X( "
                        \o Join(", ", [j \in 1..Len(component_meta.input) |-> C9_ExpectedArg(j)])
                        \o " )",
                      "">>

\* C9 witness: a generated call with a matched channel, an unmatched
\* channel of one element and an unmatched channel of several elements
C9_Witness ==
    /\ cmp_pc = "called"
    /\ variant = "ClassExpand"
    /\ ~component_args.none
    /\ Len(run_module) = 2
    /\ \E j \in 1..Len(component_args.args) : component_args.args[j] = "ch_fasta_branch.a_x"
    /\ \E j \in 1..Len(component_args.args) : component_args.args[j] = "[[], []]"

\* expand_class has rendered and written the files
Rendered ==
    pc \in {"patch", "apply_patch", "apply_patch_write", "apply_patch_move",
            "git_apply", "finish", "done"}

\* _get_modules_from_class has run
ModulesChosen ==
    \/ pc \in {"info", "render"}
    \/ Rendered
    \/ pc = "raised" /\ error = "HTTPError: module meta.yml"

\* the declared inputs and outputs of component match the class schema
Compatible(component) ==
    /\ ~ArgsOf(component, inputs_yml, input_channels).none
    /\ ~OutsOf(component).none

\* C5 (as claimed): the modules named in the generated fragments (include
\* statements, branch cases, module tags, generated tests) are exactly the
\* modules whose declared inputs and outputs match the class schema; a
\* module that does not match is skipped.
C5_OnlyMatchingModulesNamed ==
    pc = "done" =>
        LET matching == SelectSeq(components, Compatible)
        IN  /\ include_statements = IncludeStatements(matching)
            /\ components_tags = ComponentsTags(matching, variant)
            /\ tests = GenerateNftestCode(matching, test_datasets)
            /\ \A i \in 1..Len(components) :
                    ~Compatible(components[i]) =>
                        \A l \in 1..Len(run_module) :
                            run_module[l] # BranchCase(components[i], "fasta")[1]

\* C6 (as claimed): when expand_modules is given, after
\* _get_modules_from_class every module of self.components is a module of
\* the class.
C6_ComponentsBelongToClass ==
    (ModulesChosen /\ expand_modules # <<>>) =>
        \A i \in 1..Len(components) : InList(components[i], class_modules)

\* the names the user wrote into expand_modules
RequestedNames ==
    CHOOSE names \in SeqsUpTo(RequestPool, MaxReq) : JoinNames(names) = expand_modules

\* the include statement expected for a module, written out
ExpectedInclude(name) ==
    CASE name = ModA -> "include { A_X } from '../../../modules/nf-core/a/x/main'"
      [] name = ModB -> "include { B } from '../../../modules/nf-core/b/main'"
      [] name = ModC -> "include { C } from '../../../modules/nf-core/c/main'"
      [] name = ModD -> "include { D } from '../../../modules/nf-core/d/main'"

\* the include statements of the generated main.nf
MainNfIncludes == files["main.nf"].rendered.include_statements

\* C7 (as claimed): when expand_modules names only modules of the class,
\* the generated main.nf holds exactly one include statement for each
\* requested module and no include of any other module.
C7_OneIncludePerModule ==
    (/\ Rendered
     /\ expand_modules # <<>>
     /\ \A i \in 1..Len(RequestedNames) : InList(RequestedNames[i], class_modules)) =>
        /\ files["main.nf"].exists
        /\ \A i \in 1..Len(RequestedNames) :
                Cardinality({l \in 1..Len(MainNfIncludes) :
                                MainNfIncludes[l] = ExpectedInclude(RequestedNames[i])}) = 1
        /\ \A l \in 1..Len(MainNfIncludes) :
                \E i \in 1..Len(RequestedNames) :
                    MainNfIncludes[l] = ExpectedInclude(RequestedNames[i])

\* C7 (amended): when expand_modules names only modules of the class, the
\* generated main.nf holds one include statement for each name listed in
\* expand_modules, in the order of the list, and no other: a module listed
\* twice is included twice. The included process is the module name in
\* upper case with '/' replaced by '_'.
C7_RequestedModulesIncluded ==
    (/\ Rendered
     /\ expand_modules # <<>>
     /\ \A i \in 1..Len(RequestedNames) : InList(RequestedNames[i], class_modules)) =>
        /\ files["main.nf"].exists
        /\ MainNfIncludes =
                [i \in 1..Len(RequestedNames) |-> ExpectedInclude(RequestedNames[i])]

\* C7 witness: a module of the class was requested twice, another once,
\* and main.nf includes A_X, B and A_X again
C7_Witness ==
    /\ pc = "done"
    /\ expand_modules = <<"a", "/", "x", ",", "b", ",", "a", "/", "x">>
    /\ class_modules = <<ModB, ModA>>
    /\ MainNfIncludes = <<ExpectedInclude(ModA), ExpectedInclude(ModB), ExpectedInclude(ModA)>>

\* the modules the class YAML lists under components.modules
ListedModules == IF remote_class.has_modules THEN remote_class.modules ELSE <<>>

\* the class YAML has been read
ClassRead ==
    \/ pc \in {"modules", "info", "render"}
    \/ Rendered
    \/ pc = "raised" /\ error = "HTTPError: module meta.yml"

\* C8: when expand_modules is not given, the generated subworkflow
\* includes every module the class YAML lists under components.modules
\* (none if the key is absent), in the class's order; and self.class_modules
\* stays the list the class YAML gives.
C8_AllClassModulesIncluded ==
    /\ (Rendered /\ expand_modules = <<>>) =>
            /\ components = ListedModules
            /\ MainNfIncludes =
                    [i \in 1..Len(ListedModules) |-> ExpectedInclude(ListedModules[i])]
    /\ ClassRead => class_modules = ListedModules

\* C8 witness: no expand_modules, the class lists c and a/x, main.nf
\* includes C and A_X in that order
C8_Witness ==
    /\ pc = "done"
    /\ expand_modules = <<>>
    /\ class_modules = <<ModC, ModA>>
    /\ MainNfIncludes = <<ExpectedInclude(ModC), ExpectedInclude(ModA)>>

\* the subworkflow directory held <classname>.diff when expand_class began
HadPatch == patch_targets # {}

\* C10: re-running expand_class with force on a subworkflow that has a
\* patch regenerates the files before the patch is applied; when the patch
\* applies, the final files are the regenerated files with the patch
\* applied; however the run ends, the .diff file is still in the directory.
C10_PatchReapplied ==
    /\ (pc \in {"done", "raised"} /\ HadPatch) => patch_file # "absent"
    /\ (pc = "done" /\ patch_applied \in {"differ", "git"}) =>
            \A f \in Files :
                files[f] = IF f \in patch_targets
                           THEN Patched(RenderedFile(ObjectAttrs))
                           ELSE RenderedFile(ObjectAttrs)
    /\ (pc \in {"apply_patch", "apply_patch_write", "apply_patch_move", "git_apply"}
            \/ patch_applied # "no") =>
            /\ force
            /\ HadPatch
            /\ \A f \in Files : files[f].gen = "rendered"
    /\ (pc = "done" /\ HadPatch /\ variant = "ClassExpand") => patch_applied # "no"

\* C10 witness: the run ended with the patch applied by ComponentsDiffer,
\* the patched test file in place and the .diff file present
C10_Witness ==
    /\ pc = "done"
    /\ force
    /\ HadPatch
    /\ patch_applied = "differ"
    /\ patch_file # "absent"
    /\ files["tests/main.nf.test"].patched
    /\ files["tests/main.nf.test"].gen = "rendered"

\* the elements class input channel i declares: all but the appended 'tool'
DeclaredElements(i) == SubSeq(inputs_yml[i].elems, 1, Len(inputs_yml[i].elems) - 1)

\* module input channel j has as many elements as class channel i declares
\* and they match one by one
SameShape(j, i) ==
    LET channel == component_meta.input[j]
    IN  /\ Len(channel.elems) = Len(DeclaredElements(i))
        /\ \A e \in 1..Len(channel.elems) :
                _compare_channels(channel.elems[e].info, DeclaredElements(i)[e].info)

\* C17: a module input tuple channel with k elements matches a class input
\* channel only if the class declares exactly k elements for it; the 'tool'
\* element appended to every class channel counts neither in the length
\* check nor in the elementwise comparison: the channel matches exactly the
\* class channels of its shape, and its argument is the accessor name of
\* the first of them.
C17_ToolElementNotCompared ==
    cmp_pc \in {"compared_inputs", "called"} =>
        /\ \A i \in 1..Len(inputs_yml) :
                inputs_yml[i].elems[Len(inputs_yml[i].elems)] = ToolElement
        /\ \A j \in 1..Len(component_meta.input) :
                component_meta.input[j].kind = "list" =>
                    /\ \A i \in 1..Len(inputs_yml) :
                            InputChannelMatches(component_meta.input[j], inputs_yml[i])
                                <=> SameShape(j, i)
                    /\ ~component_args.none =>
                            LET shaped == {i \in 1..Len(inputs_yml) : SameShape(j, i)}
                            IN  IF shaped = {}
                                THEN ~InList(component_args.args[j], HarnessNames)
                                ELSE component_args.args[j] =
                                        HarnessNames[CHOOSE i \in shaped :
                                                        \A k \in shaped : i <= k]

\* C17 witness: the class declares [meta, fasta]; the module channel
\* [meta, fasta, mode], as long as the class channel with its 'tool', is not
\* matched, the module channel [meta, fasta] is
C17_Witness ==
    /\ cmp_pc = "compared_inputs"
    /\ variant = "ClassExpand"
    /\ Len(inputs_yml) = 1
    /\ Len(inputs_yml[1].elems) = 3
    /\ component_meta.input =
            <<ListChannel(<<Meta, ModFasta, ModMode>>), ListChannel(<<Meta, ModFasta>>)>>
    /\ component_args = [none |-> FALSE,
                         args |-> <<"[[], [], []]", "ch_fasta_branch.a_x">>]

\* a fetch of expand_class failed
FetchFailed ==
    pc = "raised" /\ error \in {"HTTPError: class yml", "HTTPError: module meta.yml"}

\* the class YAML and the meta.yml of every selected module were fetched
AllFetched ==
    /\ inputs_yml # <<>>
    /\ class_modules = ListedModules
    /\ \A i \in 1..Len(components) :
            /\ components[i] \in UpstreamModules
            /\ DictHas(components_args_inputs, components[i])
            /\ DictHas(components_names_outputs, components[i])

\* the patch has touched the directory, or its application is under way
PatchAtWork ==
    \/ pc \in {"apply_patch", "apply_patch_write", "apply_patch_move", "git_apply"}
    \/ patch_applied # "no"
    \/ \E f \in Files : files[f].patched
    \/ patch_file = "regenerated"

\* C16: in expand_class no generated file is written until the class YAML
\* and the meta.yml of every selected module have been fetched; when one of
\* these fetches fails expand_class raises and the directory holds no newly
\* generated file; an existing patch is applied only after all files have
\* been written.
C16_FetchBeforeWrite ==
    /\ (\E f \in Files : files[f].gen = "rendered") => (Rendered /\ AllFetched)
    /\ error \in {"HTTPError: class yml", "HTTPError: module meta.yml"} => pc = "raised"
    /\ FetchFailed =>
            /\ \A f \in Files : files[f].gen # "rendered" /\ ~files[f].patched
            /\ \E d \in InitialDirs : files = d.files /\ patch_file = d.patch_file
            /\ tests = <<>>
    /\ PatchAtWork =>
            /\ Rendered
            /\ \A f \in Files : files[f].exists /\ files[f].gen = "rendered"

\* C16 witness: the meta.yml of the second of two modules could not be
\* fetched; expand_class raised and the files of the earlier run are as
\* they were
C16_Witness ==
    /\ FetchFailed
    /\ error = "HTTPError: module meta.yml"
    /\ force
    /\ Len(components) = 2
    /\ Len(components_args_inputs) = 1
    /\ \A f \in Files : files[f] = StaleFile
    /\ patch_file = "original"

\* the directory holds the freshly generated files, untouched by any patch
FreshFiles == \A f \in Files : files[f] = RenderedFile(ObjectAttrs)

\* C19: when expand_class finds a patch, 'git apply' is attempted only
\* after the application by ComponentsDiffer failed; that failure leaves
\* the freshly generated files and the patch file as they were; when git
\* apply fails as well, expand_class logs it and completes normally.
C19_GitApplyIsFallback ==
    /\ (pc = "git_apply" \/ patch_applied \in {"git", "failed"}) =>
            /\ variant = "ClassExpand"
            /\ HadPatch
            /\ patch_file = "original"
            /\ temp_dir = [files |-> [f \in Files |-> RenderedFile(ObjectAttrs)],
                           patch_file |-> "original"]
    /\ pc = "git_apply" => (patch_applied = "no" /\ FreshFiles /\ error = "")
    /\ patch_applied = "failed" =>
            /\ pc \in {"finish", "done"}
            /\ error = ""
            /\ FreshFiles

\* C19 witness: ComponentsDiffer and git apply both failed and expand_class
\* returned, the generated files being unpatched
C19_Witness ==
    /\ pc = "done"
    /\ patch_applied = "failed"
    /\ error = ""
    /\ FreshFiles
    /\ Len(components) = 1

\* the elements of a test dataset as the generated test shows them, written
\* out: strings lose the quotes around them, a number is its digits
DatasetText(ch_test_data) ==
    CASE ch_test_data = QuotedData -> "m, f, "
      [] ch_test_data = NumberData -> "m, 1, "
      [] ch_test_data = MixedQuotesData -> "q\", "
      [] ch_test_data = OnlyNumberData -> "1, "

\* the tool name of a module in the generated tests, written out
ToolName(component) ==
    CASE component = ModA -> "'a_x'"
      [] component = ModB -> "'b'"
      [] component = ModD -> "'d'"

\* the line that assigns input[i - 1] in the test of component
InputLine(component, i) ==
    "                input[" \o IntStr(i - 1) \o "] = Channel.of( ["
        \o DatasetText(test_datasets[i]) \o ToolName(component) \o "] )"

\* the first line of the test of component
TestHead(component) == "    test(\"" \o ToStr(component) \o "\") {"

\* the number of datasets among the first n whose elements are all strings
RECURSIVE StringDatasets(_)
StringDatasets(n) ==
    IF n = 0 THEN 0
    ELSE StringDatasets(n - 1) + (IF AllStrings(test_datasets[n]) THEN 1 ELSE 0)

\* the lines of a test around its input lines
TestFrameLines == Len(TestCode(ModA, <<>>))

\* the lines of one generated test
TestLength == TestFrameLines + StringDatasets(Len(test_datasets))

\* C20 (as claimed): the generated tests are one test per included module,
\* in module order and named after the module, and each test assigns one
\* input[i] for every test dataset i of the class.
C20_EveryDatasetAssigned ==
    cmp_pc = "generated" =>
        \A c \in 1..Len(components) :
            /\ InList(TestHead(components[c]), tests)
            /\ \A i \in 1..Len(test_datasets) :
                    InList(InputLine(components[c], i), tests)

\* C20 (amended): the generated tests are one test per included module, in
\* module order and named after the module; each test assigns input[i], in
\* the order of the datasets, for every test dataset i whose elements are
\* all strings: the elements without the quotes around them, followed by
\* the module name with '/' replaced by '_' in single quotes; a dataset
\* with an element that is not a string gets no input line.
C20_StringDatasetsAssigned ==
    cmp_pc = "generated" =>
        /\ Len(tests) = Len(components) * TestLength
        /\ \A c \in 1..Len(components) :
                LET first == (c - 1) * TestLength
                IN  /\ tests[first + 1] = TestHead(components[c])
                    /\ \A i \in 1..Len(test_datasets) :
                            IF AllStrings(test_datasets[i])
                            THEN tests[first + 5 + StringDatasets(i)]
                                    = InputLine(components[c], i)
                            ELSE \A l \in 1..Len(tests) :
                                    tests[l] # InputLine(components[c], i)
        /\ \A l \in 1..Len(tests) :
                (\E c \in 1..Len(components) : tests[l] = TestHead(components[c]))
                    => l % TestLength = 1

\* C20 witness: two modules and two datasets, one of strings and one with
\* a number; each test assigns input[0] only
C20_Witness ==
    /\ cmp_pc = "generated"
    /\ components = <<ModA, ModB>>
    /\ test_datasets = <<QuotedData, NumberData>>
    /\ tests[6] = "                input[0] = Channel.of( [m, f, 'a_x'] )"
    /\ tests[TestLength + 6] = "                input[0] = Channel.of( [m, f, 'b'] )"
    /\ Len(tests) = 36

\* where the generating command stands, and what it raised
GeneratePc == IF command = "ComponentCreateFromClass" THEN cmd_pc ELSE pc

GenerateError == IF command = "ComponentCreateFromClass" THEN cmd_error ELSE error

\* no class YAML was fetched and no template was rendered or written
NothingGenerated ==
    /\ inputs_yml = <<>>
    /\ outputs_yml = <<>>
    /\ inputs = <<>>
    /\ outputs = <<>>
    /\ \A f \in DOMAIN files : files[f].gen # "rendered"

\* the command has an object to run on: the constructor returned
GeneratingObject ==
    command = "ComponentCreateFromClass" \/ ConstructorError(variant) = ""

\* C13: with a class name that is not among the available classes,
\* expand_class and create_from_class get no further than the lookup of the
\* name: they raise UserWarning there (or earlier, for the repository type),
\* with no class YAML fetched and no template rendered or written.
C13_UnknownClassRaises ==
    (GeneratingObject /\ classname \notin AvailableClasses) =>
        /\ GeneratePc \in {"start", "class_prompt", "raised"}
        /\ GeneratePc = "raised" =>
                GenerateError \in {"UserWarning: class not found",
                                   "UserWarning: not supported for pipelines"}
        /\ NothingGenerated

\* C14: run in a pipeline repository, expand_class and create_from_class
\* raise UserWarning at their first step and generate nothing.
C14_PipelineRepoRaises ==
    (GeneratingObject /\ repo_type \in {"pipeline", "pipelines"}) =>
        /\ GeneratePc \in {"start", "raised"}
        /\ GeneratePc = "raised" =>
                GenerateError = "UserWarning: not supported for pipelines"
        /\ NothingGenerated

\* a patch command is running
Patching == command \in {"ClassPatch", "ClassComponentPatch"}

\* the parameters patch refuses: the repository type, the organisation, the
\* directory, or a given name that is not a subworkflow of the repository
BadParameters ==
    \/ repo_type # "modules"
    \/ org = "nf-core"
    \/ ~valid_directory
    \/ classname # "" /\ classname \notin RepoSubworkflows

ParameterWarnings ==
    {"UserWarning: not a modules repository",
     "UserWarning: not in the nf-core organisation",
     "UserWarning: not a valid modules repository",
     "UserWarning: subworkflow not found"}

\* C12: called with a repository type other than 'modules', in the nf-core
\* organisation, in a directory that is not a valid modules repository, or
\* with a name that is not among the subworkflows of the repository, patch
\* raises UserWarning as its first step: no file of the repository is
\* removed or written, no temporary directory or patch is made, and
\* expand_class is not started.
C12_BadParametersRaiseFirst ==
    [][(Patching /\ cmd_pc = "start" /\ BadParameters) =>
            /\ cmd_pc' = "raised"
            /\ cmd_error' \in ParameterWarnings
            /\ repo' = repo
            /\ files' = files
            /\ patch_temp' = patch_temp
            /\ pc' = "idle"]_vars

\* C12 witness: ClassComponentPatch.patch raised for an unknown name, and
\* the patch of the subworkflows is still in place
C12_Witness ==
    /\ command = "ClassComponentPatch"
    /\ repo_type = "modules"
    /\ org = "my-org"
    /\ valid_directory
    /\ classname = "no_such_class"
    /\ cmd_pc = "raised"
    /\ cmd_error = "UserWarning: subworkflow not found"
    /\ repo["msa_alignment"].patch_file = "original"
    /\ files = NoDir.files
    /\ pc = "idle"

\* the command asks before it removes an existing patch
PromptsEnabled == command = "ClassComponentPatch" \/ ~no_prompts

\* C18: when the patch file exists and prompts are enabled, patch asks: on
\* a confirmation the patch is removed and patch goes on to regenerate it;
\* on a refusal patch returns with the patch file, the subworkflow files
\* and everything else as they were, and nothing happens afterwards. With
\* no_prompts the patch is removed without a question, and patch goes on.
\* When patch returns without a refusal, the patch file is a regenerated
\* one.
C18_RegenerateOnlyWhenConfirmed ==
    /\ [](Patching /\ asked = "no" => cmd_pc = "declined")
    /\ [](Patching /\ ~PromptsEnabled => asked = "unasked")
    /\ [](Patching /\ cmd_pc = "done" =>
                CurrentDir(classname).patch_file = "regenerated")
    /\ [][(Patching /\ cmd_pc = "existing"
                /\ CurrentDir(classname).patch_file # "absent") =>
            IF PromptsEnabled
            THEN \/ /\ asked' = "yes"
                    /\ cmd_pc' = "read_meta"
                    /\ repo'[classname].patch_file = "absent"
                    /\ repo'[classname].files = repo[classname].files
                 \/ /\ asked' = "no"
                    /\ cmd_pc' = "declined"
                    /\ repo' = repo
                    /\ files' = files
                    /\ patch_temp' = patch_temp
            ELSE /\ asked' = "unasked"
                 /\ cmd_pc' = "read_meta"
                 /\ repo'[classname].patch_file = "absent"
                 /\ repo'[classname].files = repo[classname].files]_vars

\* C18 witness: ClassPatch.patch asked, the user declined, and the patch
\* and the edited file are in place
C18_Witness ==
    /\ command = "ClassPatch"
    /\ ~no_prompts
    /\ asked = "no"
    /\ cmd_pc = "declined"
    /\ repo[classname].patch_file = "original"
    /\ repo[classname].files["main.nf"].patched
    /\ pc = "idle"

\* the temporary directory holds the class as expand_class generated it,
\* with no patch in it or applied to it
BareExpansion ==
    /\ pc = "done"
    /\ patch_file = "absent"
    /\ patch_applied = "no"
    /\ \A f \in Files : files[f] = RenderedFile(ObjectAttrs)

\* what a diff from the generated to the current files has to record
RecordsGeneratedToCurrent(diff, current_files) ==
    /\ diff.from = files
    /\ diff.to = current_files
    /\ diff.changed = {f \in Files : files[f] # current_files[f]}
    /\ diff.changed # {}

\* C11: when patch has returned without a refusal, the subworkflow
\* directory holds a patch file that records the differences from the class
\* as expand_class generated it, without a patch, in the temporary
\* directory to the current subworkflow, and there are differences; the
\* patch file comes into the directory only by the move of a temporary
\* patch file that was written with that diff; and when patch raised, no
\* new patch file is in the directory.
C11_PatchRecordsDifferences ==
    /\ [](Patching /\ cmd_pc = "done" =>
            /\ BareExpansion
            /\ CurrentDir(classname).patch_file = "regenerated"
            /\ RecordsGeneratedToCurrent(CurrentDir(classname).diff,
                                         CurrentDir(classname).files))
    /\ [](Patching /\ cmd_pc = "raised" =>
            CurrentDir(classname).patch_file # "regenerated")
    /\ [][(Patching /\ repo' # repo /\ cmd_pc # "existing") =>
            /\ cmd_pc = "move"
            /\ cmd_pc' = "done"
            /\ BareExpansion
            /\ patch_temp.written
            /\ RecordsGeneratedToCurrent(patch_temp.diff, repo[classname].files)
            /\ repo'[classname].diff = patch_temp.diff
            /\ repo'[classname].files = repo[classname].files]_vars

\* C11 witness: ClassPatch.patch returned; main.nf had been edited by hand
\* and the regenerated patch records main.nf as the file that differs
C11_Witness ==
    /\ command = "ClassPatch"
    /\ cmd_pc = "done"
    /\ asked = "yes"
    /\ Len(components) = 2
    /\ repo[classname].patch_file = "regenerated"
    /\ repo[classname].diff.changed = {"main.nf"}
    /\ repo[classname].files["main.nf"].patched
    /\ ~files["main.nf"].patched

\* the number of times a result occurs in a list of results
Occurrences(results, r) == Cardinality({i \in 1..Len(results) : results[i] = r})

\* the file of the class in the repository and the file of the temporary
\* copy, after expand_class has run there, are both present and identical
UnchangedFile(swf, f) ==
    /\ files[f].exists
    /\ repo[swf].files[f].exists
    /\ files[f] = repo[swf].files[f]

\* the subworkflow of the class is as expand_class generates it from the
\* class as it is now, with no patch
AsGenerated(swf) ==
    /\ repo[swf].patch_file = "absent"
    /\ \A f \in Files :
            repo[swf].files[f] = RenderedFile(ExpandedAttrs(ListedModules, "ClassExpand"))

\* C15: when lint has returned after linting the classes of to_lint, every
\* class of to_lint has exactly one result for each of main.nf, meta.yml
\* and tests/main.nf.test, in passed or in failed, and there are no other
\* results: warned is empty and len(passed) + len(failed) is three times
\* the number of classes. A file missing in the subworkflow is in failed,
\* the files of a subworkflow that is as generated are in passed, and at
\* the comparison of a class each file goes to passed exactly when it is
\* identical to the file of the temporary copy, re-expanded with the patch
\* applied, and to failed otherwise; the earlier results stay.
C15_OneResultPerFile ==
    /\ [](command = "ClassLint" /\ cmd_pc = "done" =>
            /\ warned = <<>>
            /\ Len(passed) + Len(failed) = 3 * Len(to_lint)
            /\ \A r \in {passed[i] : i \in 1..Len(passed)}
                            \cup {failed[i] : i \in 1..Len(failed)} :
                    /\ r.file_path \in Files
                    /\ \E i \in 1..Len(to_lint) : to_lint[i] = r.component
            /\ \A i \in 1..Len(to_lint), f \in Files :
                    /\ Occurrences(passed, LintResult(to_lint[i], f))
                            + Occurrences(failed, LintResult(to_lint[i], f)) = 1
                    /\ ~repo[to_lint[i]].files[f].exists =>
                            Occurrences(failed, LintResult(to_lint[i], f)) = 1
                    /\ AsGenerated(to_lint[i]) =>
                            Occurrences(passed, LintResult(to_lint[i], f)) = 1)
    /\ [][(command = "ClassLint" /\ cmd_pc = "expanding" /\ pc = "done") =>
            /\ Len(passed') + Len(failed') = Len(passed) + Len(failed) + 3
            /\ SubSeq(passed', 1, Len(passed)) = passed
            /\ SubSeq(failed', 1, Len(failed)) = failed
            /\ \A f \in Files :
                    IF UnchangedFile(classname, f)
                    THEN Occurrences(passed', LintResult(classname, f)) = 1
                    ELSE Occurrences(failed', LintResult(classname, f)) = 1]_vars

\* _get_class_info of create_from_class has read the class YAML
ClassInfoRead == command = "ComponentCreateFromClass" /\ cmd_pc = "render"

\* the qualifier the types have: val for values, path for files and
\* directories, none for any other type
QualifierOfType(type) ==
    CASE type \in {"map", "string", "integer", "float", "boolean"} -> "val"
      [] type \in {"file", "directory"} -> "path"
      [] OTHER -> ""

\* the element names with a character that is neither a letter nor a digit
NonAlphanumericNames == {"fasta_file", "*.aln", "versions.yml"}

\* a name as the input line shows it
NameAsWritten(name) ==
    IF name \in NonAlphanumericNames THEN "\"" \o name \o "\"" ELSE name

\* the line of an input channel: 'tuple ' for more than one element, the
\* elements as qualifier(name), separated by commas
InputChannelLine(channel) ==
    (IF Len(channel.elems) > 1 THEN "tuple " ELSE "")
        \o Join(", ", [j \in 1..Len(channel.elems) |->
                            QualifierOfType(channel.elems[j].info.type) \o "("
                                \o NameAsWritten(channel.elems[j].key) \o ")"])

RECURSIVE ElementNames(_)
\* the names of the elements of the channels, in order
ElementNames(channels) ==
    IF channels = <<>> THEN <<>>
    ELSE [j \in 1..Len(channels[1].elems) |-> channels[1].elems[j].key]
            \o ElementNames(Tail(channels))

\* every input channel of the class has its line in self.inputs
InputLinesRendered ==
    /\ Len(inputs) = Len(inputs_yml)
    /\ \A i \in 1..Len(inputs_yml) : inputs[i] = InputChannelLine(inputs_yml[i])

\* C21 as stated: every class input channel is rendered as one line,
\* 'tuple ' exactly for more than one element, the elements
\* comma-separated as qualifier(name), names with a non-alphanumeric
\* character double-quoted; and input_vars is the list of the element
\* names, in order.
C21_InputVarsAreElementNames ==
    ClassInfoRead =>
        /\ InputLinesRendered
        /\ input_vars = ElementNames(inputs_yml)

\* C21, amended: the lines are as stated, with an empty qualifier for a
\* type that is none of the seven; input_vars lists the element names in
\* order as the lines show them, a name with a non-alphanumeric character
\* inside its double quotes.
C21_InputVarsAsWritten ==
    ClassInfoRead =>
        /\ InputLinesRendered
        /\ input_vars = [k \in 1..Len(ElementNames(inputs_yml)) |->
                            NameAsWritten(ElementNames(inputs_yml)[k])]

\* C21 witness: two channels were rendered, the second with a directory
\* whose name is quoted and an element without qualifier
C21_Witness ==
    /\ ClassInfoRead
    /\ inputs = <<"tuple val(meta), path(fasta)", "tuple path(\"fasta_file\"), (opts2)">>
    /\ input_vars = <<"meta", "fasta", "\"fasta_file\"", "opts2">>

====
